---- MODULE Spec2Model ----
(***************************************************************************)
(* A state-machine model of src/src/parser.js: the decoder of the Java     *)
(* object-serialization stream format.  The recursive-descent parser is    *)
(* unfolded into an explicit call stack: every frame is one activation of  *)
(* a method of Parser or of a typeHandlers entry, and every action is one  *)
(* straight-line piece of such a method between two calls of content().    *)
(*                                                                         *)
(* The input buffer is drawn as the parser looks at it: buf is the part of *)
(* the buffer read so far, avail the number of bytes the parse has learned *)
(* the buffer to hold at least, and len the buffer's length, drawn when a  *)
(* comparison of the cursor against buf.length first comes out as "past    *)
(* the end" (len is -1 until then).  The parser reads strictly forward and *)
(* only ever compares the cursor with the length, so every behaviour is    *)
(* the parse of one buffer that was whole at construction: buf, continued  *)
(* by any bytes up to len.                                                 *)
(*                                                                         *)
(* JavaScript strings are sequences of char codes.  A value is a record    *)
(* [k, v]: k its kind, v a sequence.  Objects with identity (descriptors,  *)
(* decoded objects, arrays, enum wrappers) live in heap and are denoted by *)
(* values of kind "ref" carrying their index, so that identity is equality *)
(* of indices.                                                             *)
(***************************************************************************)
EXTENDS Integers, Sequences, FiniteSets, TLC

\* ---------------------------------------------------------------- bounds

\* Longest input buffer drawn.
MaxLen == 64
\* Most entries the two registries hold together.
MaxRegs == 2
\* Largest field count drawn for a class descriptor.
MaxFields == 1
\* Largest BlockData / BlockDataLong length byte drawn.
MaxBlock == 2
\* Largest array length drawn.
MaxArray == 1
\* Descent of recursiveClassData explored before the model stops.
MaxWalk == 4

\* ------------------------------------------------------ program constants

BaseHandle == 8257536
TagBase == 112
StreamMagic == 44269
StreamVersion == 5

names ==
  << "Null", "Reference", "ClassDesc", "Object", "String", "Array", "Class",
     "BlockData", "EndBlockData", "Reset", "BlockDataLong", "Exception",
     "LongString", "ProxyClassDesc", "Enum" >>

\* The keys of typeHandlers.
HandlerNames ==
  { "Null", "Reference", "ClassDesc", "Object", "String", "Array", "Class",
    "BlockData", "EndBlockData", "BlockDataLong", "LongString", "Enum" }

\* The allow-list classDesc() passes to content().
ClassDescAllowed == { "ClassDesc", "ProxyClassDesc", "Null", "Reference" }

\* The widths of the fixed-width primitive handlers of primHandlers.
PrimWidth(t) ==
  CASE t = <<66>> -> 1
    [] t = <<67>> -> 2
    [] t = <<68>> -> 8
    [] t = <<70>> -> 4
    [] t = <<73>> -> 4
    [] t = <<74>> -> 8
    [] t = <<83>> -> 2
    [] t = <<90>> -> 1
    [] OTHER -> 0

IsContentType(t) == t = <<76>> \/ t = <<91>>

IsKnownType(t) == PrimWidth(t) > 0 \/ IsContentType(t)

\* ------------------------------------------------------------- the values

Null == [k |-> "null", v |-> <<>>]
Undefined == [k |-> "undefined", v |-> <<>>]
endBlock == [k |-> "endBlock", v |-> <<>>]
Num(n) == [k |-> "number", v |-> <<n>>]
Bool(b) == [k |-> "boolean", v |-> <<IF b THEN 1 ELSE 0>>]
Str(s) == [k |-> "string", v |-> s]
Ref(i) == [k |-> "ref", v |-> <<i>>]
List(s) == [k |-> "list", v |-> s]
\* Object.prototype
ObjectPrototype == [k |-> "prototype", v |-> <<>>]
\* Array.prototype, String.prototype, Buffer.prototype with the prototypes of
\* the typed arrays behind it, Long.prototype and Parser.prototype
ArrayPrototype == [k |-> "prototype", v |-> <<1>>]
StringPrototype == [k |-> "prototype", v |-> <<2>>]
BufferPrototype == [k |-> "prototype", v |-> <<3>>]
LongPrototype == [k |-> "prototype", v |-> <<4>>]
ParserPrototype == [k |-> "prototype", v |-> <<5>>]
\* a plain object with the own properties s, as an object literal makes it
Map(s) == [k |-> "map", v |-> s, proto |-> ObjectPrototype]
\* the Parser under construction
This == [k |-> "parser", v |-> <<>>]

IsRef(x) == x.k = "ref"
IsStr(x) == x.k = "string"

\* ---------------------------------------------------- bytes and encodings

RECURSIVE BE(_)
\* Buffer.readUIntBE: the big-endian unsigned number of a byte sequence.
BE(bs) ==
  IF bs = <<>> THEN 0
  ELSE BE(SubSeq(bs, 1, Len(bs) - 1)) * 256 + bs[Len(bs)]

\* Buffer.readInt8 / readInt16BE / readInt32BE: two's complement, computed
\* from the complemented bytes so that no intermediate exceeds 31 bits.
Signed(bs) ==
  IF bs # <<>> /\ bs[1] >= 128
  THEN 0 - (BE([i \in 1..Len(bs) |-> 255 - bs[i]]) + 1)
  ELSE BE(bs)

U16(n) == << (n \div 256) % 256, n % 256 >>

U32(n) ==
  << (n \div 16777216) % 256, (n \div 65536) % 256, (n \div 256) % 256, n % 256 >>

HexDigit(n) == IF n < 10 THEN 48 + n ELSE 87 + n

RECURSIVE Hex(_)
\* buf.toString("hex", ...): two lowercase hex digits per byte.
Hex(bs) ==
  IF bs = <<>> THEN <<>>
  ELSE << HexDigit(bs[1] \div 16), HexDigit(bs[1] % 16) >> \o Hex(Tail(bs))

\* buf.toString("utf8", ...): the UTF-16 code units of the decoded text.  A
\* well-formed sequence of 1 to 4 bytes decodes to its code point (a surrogate
\* pair from U+10000 on); every maximal ill-formed part decodes to U+FFFD.
Utf8(bs) ==
  LET n == Len(bs)
      B(i) == IF i <= n THEN bs[i] ELSE -1
      Cont(b) == b \in 128..191
      Second(b, c) ==
        CASE b = 224 -> c \in 160..191
          [] b = 237 -> c \in 128..159
          [] b = 240 -> c \in 144..191
          [] b = 244 -> c \in 128..143
          [] OTHER -> Cont(c)
      RECURSIVE Dec(_)
      Dec(i) ==
        IF i > n THEN <<>>
        ELSE LET b == bs[i]
             IN  CASE b < 128 -> <<b>> \o Dec(i + 1)
                   [] b \in 194..223 ->
                        IF Cont(B(i + 1))
                        THEN << (b - 192) * 64 + (B(i + 1) - 128) >> \o Dec(i + 2)
                        ELSE <<65533>> \o Dec(i + 1)
                   [] b \in 224..239 ->
                        IF ~Second(b, B(i + 1)) THEN <<65533>> \o Dec(i + 1)
                        ELSE IF ~Cont(B(i + 2)) THEN <<65533>> \o Dec(i + 2)
                        ELSE << (b - 224) * 4096 + (B(i + 1) - 128) * 64 + (B(i + 2) - 128) >>
                             \o Dec(i + 3)
                   [] b \in 240..244 ->
                        IF ~Second(b, B(i + 1)) THEN <<65533>> \o Dec(i + 1)
                        ELSE IF ~Cont(B(i + 2)) THEN <<65533>> \o Dec(i + 2)
                        ELSE IF ~Cont(B(i + 3)) THEN <<65533>> \o Dec(i + 3)
                        ELSE LET cp == (b - 240) * 262144 + (B(i + 1) - 128) * 4096
                                       + (B(i + 2) - 128) * 64 + (B(i + 3) - 128) - 65536
                             IN  << 55296 + (cp \div 1024), 56320 + (cp % 1024) >> \o Dec(i + 4)
                   [] OTHER -> <<65533>> \o Dec(i + 1)
  IN  Dec(1)

RECURSIVE Digits(_)
Digits(n) ==
  IF n < 10 THEN <<48 + n>> ELSE Digits(n \div 10) \o <<48 + (n % 10)>>

\* Number.prototype.toString of an integer.
IntToStr(n) == IF n < 0 THEN <<45>> \o Digits(0 - n) ELSE Digits(n)

Zeros(n) == [i \in 1..n |-> 0]

\* F(v), with v computed once.
Let(v, F(_)) == CHOOSE r \in { F(u) : u \in {v} } : TRUE

\* ------------------------------------------------- numbers and their strings

\* The bits of a byte sequence, most significant first.
Bits(bs) == [i \in 1..8 * Len(bs) |-> (bs[(i - 1) \div 8 + 1] \div 2^(7 - ((i - 1) % 8))) % 2]

RECURSIVE BitsNat(_)
\* The number a short bit sequence denotes.
BitsNat(b) == IF b = <<>> THEN 0 ELSE 2 * BitsNat(SubSeq(b, 1, Len(b) - 1)) + b[Len(b)]

RECURSIVE Shift(_, _)
\* The decimal digits d (most significant first, wide enough) times 2^n, or,
\* for a negative n, divided by 2^(-n) (which divides d).
Shift(d, n) ==
  CASE n = 0 -> d
    [] n = 1 ->
         <<>> \o [i \in 1..Len(d) |->
                    (2 * d[i] + (IF i < Len(d) /\ d[i + 1] >= 5 THEN 1 ELSE 0)) % 10]
    [] n = -1 ->
         <<>> \o [i \in 1..Len(d) |->
                    (d[i] + (IF i > 1 /\ d[i - 1] % 2 = 1 THEN 10 ELSE 0)) \div 2]
    [] OTHER ->
         CHOOSE r \in { Shift(z[1], z[2]) :
                         z \in { << Shift(d, y), n - y >> : y \in { n \div 2 } } } : TRUE

\* The sum of two numbers in decimal digits of one width, which it fits.
Plus(a, c) ==
  [i \in 1..Len(a) |->
     (a[i] + c[i]
      + (IF \E j \in (i + 1)..Len(a) :
              a[j] + c[j] >= 10 /\ \A k \in (i + 1)..(j - 1) : a[k] + c[k] = 9
         THEN 1 ELSE 0)) % 10]

RECURSIVE BitsToDec(_, _)
\* The decimal digits, in w places, of the number the bits b denote: the
\* upper half times 2^k, plus the lower k bits.
BitsToDec(b, w) ==
  IF Len(b) <= 1 THEN [i \in 1..w |-> IF i = w /\ b # <<>> THEN b[1] ELSE 0]
  ELSE LET k == Len(b) \div 2
       IN  Let(<< BitsToDec(SubSeq(b, 1, Len(b) - k), w),
                  BitsToDec(SubSeq(b, Len(b) - k + 1, Len(b)), w) >>,
               LAMBDA p : Let(Shift(p[1], k), LAMBDA hi : Plus(hi, p[2])))

\* Number::toString of the finite, positive double m * 2^x, m its 53
\* significand bits: the shortest decimal that reads back as the same double
\* (the nearest one of that length, an even last digit on a tie), laid out as
\* the language prescribes.  V is the double, L and H the midpoints to its
\* neighbours, all three in units of 10^(-scale).
NumberToString(m, x) ==
  LET y == x - 2
      scale == IF y < 0 THEN 0 - y ELSE 0
      even == m[53] = 0
      closer == m = <<1>> \o Zeros(52) /\ x > -1074
      q == CHOOSE i \in 1..53 : m[i] = 1 /\ \A j \in (i + 1)..53 : m[j] = 0
      less == [i \in 1..53 |-> IF i < q THEN m[i] ELSE IF i = q THEN 0 ELSE 1]
      Dec(b) == Let(BitsToDec(b, 17),
                    LAMBDA d : Shift(Zeros(IF y >= 0 THEN y \div 3 + 2 ELSE 1) \o d
                                     \o Zeros(0 - y), y))
      Diff(A, B) == CHOOSE i \in 1..Len(A) : A[i] # B[i] /\ \A j \in 1..(i - 1) : A[j] = B[j]
      First(D) == CHOOSE i \in 1..Len(D) : D[i] # 0 /\ \A j \in 1..(i - 1) : D[j] = 0
      Last(D) == CHOOSE i \in 1..Len(D) : D[i] # 0 /\ \A j \in (i + 1)..Len(D) : D[j] = 0
      Up(V, p) ==
        Let(CHOOSE i \in 1..p : V[i] # 9 /\ \A j \in (i + 1)..p : V[j] = 9,
            LAMBDA c : [i \in 1..p |-> IF i < c THEN V[i] ELSE IF i = c THEN V[c] + 1 ELSE 0])
      Layout(R, n) ==
        Let([i \in 1..(Last(R) - First(R) + 1) |-> 48 + R[First(R) + i - 1]],
            LAMBDA s :
              LET k == Len(s)
                  e == n - 1
              IN  IF k <= n /\ n <= 21 THEN s \o [i \in 1..(n - k) |-> 48]
                  ELSE IF 0 < n /\ n <= 21
                  THEN SubSeq(s, 1, n) \o <<46>> \o SubSeq(s, n + 1, k)
                  ELSE IF -6 < n /\ n <= 0
                  THEN <<48, 46>> \o [i \in 1..(0 - n) |-> 48] \o s
                  ELSE <<s[1]>> \o (IF k > 1 THEN <<46>> \o SubSeq(s, 2, k) ELSE <<>>)
                       \o <<101, IF e < 0 THEN 45 ELSE 43>>
                       \o Digits(IF e < 0 THEN 0 - e ELSE e))
      Cut(V, H, L, dl, dh, zl, zh) ==
        LET N == Len(V)
            OkC(i) == even \/ i < zh \/ Up(V, i) # SubSeq(H, 1, i)
            pf == IF even /\ zl < dl THEN zl ELSE dl
        IN  Let(CHOOSE i \in dh..N : OkC(i) /\ \A j \in dh..(i - 1) : ~OkC(j),
                LAMBDA pc :
                  LET p == IF pf < pc THEN pf ELSE pc
                      r == IF p < N THEN V[p + 1] ELSE 0
                      down == IF pf = pc
                              THEN r < 5 \/ (r = 5 /\ V[p] % 2 = 0
                                             /\ \A i \in (p + 2)..N : V[i] = 0)
                              ELSE pf < pc
                  IN  Let(IF down THEN SubSeq(V, 1, p) ELSE Up(V, p),
                          LAMBDA R : Layout(R, N - scale - First(R) + 1)))
  IN  Let(Dec(m \o <<0, 0>>), LAMBDA V :
      Let(Dec(m \o <<1, 0>>), LAMBDA H :
      Let(Dec(less \o (IF closer THEN <<1, 1>> ELSE <<1, 0>>)), LAMBDA L :
      Let(<< Diff(V, L), Diff(V, H), Last(L), Last(H) >>, LAMBDA at :
        Cut(V, H, L, at[1], at[2], at[3], at[4])))))

S_NaN == <<78, 97, 78>>
S_Infinity == <<73, 110, 102, 105, 110, 105, 116, 121>>

\* The significand bits m and the exponent x of the double a Buffer read gives
\* for 8 bytes (readDoubleBE) or 4 bytes (readFloatBE): its value is
\* (-1)^sign * m * 2^x; kind tells the zeros, infinities and NaNs apart.
Ieee(bs) ==
  LET b == Bits(bs)
      w == IF Len(bs) = 8 THEN 11 ELSE 8
      e == BitsNat(SubSeq(b, 2, w + 1))
      f == SubSeq(b, w + 2, Len(b))
      z == CHOOSE i \in 0..Len(f) : (i = Len(f) \/ f[i + 1] = 1) /\ \A j \in 1..i : f[j] = 0
      sub == SubSeq(f, z + 1, Len(f))
      m == IF e > 0 THEN <<1>> \o f \o Zeros(52 - Len(f))
           ELSE IF Len(bs) = 8 THEN <<0>> \o f
           ELSE sub \o Zeros(53 - Len(sub))
      x == IF Len(bs) = 8 THEN (IF e > 0 THEN e - 1075 ELSE -1074)
           ELSE (IF e > 0 THEN e - 179 ELSE (Len(sub) - 53) - 149)
  IN  [ sign |-> b[1], m |-> m, x |-> x,
        kind |-> IF e = 2^w - 1 THEN (IF z = Len(f) THEN "inf" ELSE "nan")
                 ELSE IF e = 0 /\ z = Len(f) THEN "zero" ELSE "finite" ]

\* Number.prototype.toString of a double or float read from the buffer.
DoubleToStr(bs) ==
  Let(Ieee(bs), LAMBDA d :
      CASE d.kind = "nan" -> S_NaN
        [] d.kind = "zero" -> <<48>>
        [] d.kind = "inf" -> (IF d.sign = 1 THEN <<45>> ELSE <<>>) \o S_Infinity
        [] OTHER -> (IF d.sign = 1 THEN <<45>> ELSE <<>>) \o NumberToString(d.m, d.x))


\* Long.prototype.toString of Long.fromBits(low, high): the signed 64-bit
\* number in decimal.
LongToStr(bs) ==
  LET b == Bits(bs)
      neg == b[1] = 1
      q == CHOOSE i \in 1..Len(b) : b[i] = 1 /\ \A j \in (i + 1)..Len(b) : b[j] = 0
      mag == IF neg THEN [i \in 1..Len(b) |-> IF i < q THEN 1 - b[i] ELSE b[i]] ELSE b
  IN  Let(BitsToDec(mag, 20), LAMBDA d :
        LET z == CHOOSE i \in 1..20 : (i = 20 \/ d[i] # 0) /\ \A j \in 1..(i - 1) : d[j] = 0
        IN  (IF neg THEN <<45>> ELSE <<>>) \o [i \in 1..(21 - z) |-> 48 + d[z + i - 1]])

\* A number: its kind (finite, inf, nan, or throws when the conversion to a
\* number throws, int then being the failure), its sign, the bits of its
\* integer part and whether it has a fraction.
Number(kind, sign, int, frac) == [kind |-> kind, sign |-> sign, int |-> int, frac |-> frac]

NaN == Number("nan", 0, <<>>, FALSE)

\* The number the bits int . frac denote in binary, rounded to a double (53
\* significant bits, ties to even): the last bit of frac stands for all the
\* bits after it.
Rounded(sign, int, frac) ==
  Let(<<0>> \o int \o frac, LAMBDA all :
    LET n == Len(all)
        k == Len(int) + 1
        z == CHOOSE i \in 0..n : (i = n \/ all[i + 1] = 1) /\ \A j \in 1..i : all[j] = 0
        keep == z + 53
        up == /\ all[keep + 1] = 1
              /\ (all[keep] = 1 \/ \E j \in (keep + 2)..n : all[j] = 1)
        c == CHOOSE i \in 1..keep : all[i] = 0 /\ \A j \in (i + 1)..keep : all[j] = 1
        t == IF keep >= n THEN all
             ELSE IF ~up THEN SubSeq(all, 1, keep) \o Zeros(n - keep)
             ELSE Let(c, LAMBDA at :
                    [i \in 1..n |-> IF i < at THEN all[i] ELSE IF i = at THEN 1 ELSE 0])
    IN  Let(t, LAMBDA r :
          Number("finite", sign, SubSeq(r, 1, k), \E j \in (k + 1)..n : r[j] = 1)))

RECURSIVE HalvedBits(_, _)
\* The lowest n bits, highest first, of the number the decimal digits d
\* denote: the lowest bit is the parity of d, the others are those of d
\* halved.
HalvedBits(d, n) ==
  IF n <= 0 THEN <<>>
  ELSE IF n = 1 THEN << d[Len(d)] % 2 >>
  ELSE Let(n \div 2, LAMBDA k :
         Let(Shift(d, 0 - k), LAMBDA up : HalvedBits(up, n - k) \o HalvedBits(d, k)))

\* The bits of the number the decimal digits d denote (with leading zeros).
DecToBits(d) ==
  Let(HalvedBits(d, 4 * Len(d)), LAMBDA b :
    IF \A i \in 1..Len(b) : b[i] = 0 THEN <<>>
    ELSE SubSeq(b, CHOOSE i \in 1..Len(b) : b[i] = 1 /\ \A q \in 1..(i - 1) : b[q] = 0,
                Len(b)))

RECURSIVE DoubledBits(_, _)
\* The first n bits of the fraction 0.d: the first is the carry of doubling
\* the fraction, the others are those of what the doubling leaves.
DoubledBits(d, n) ==
  IF n <= 0 \/ d = <<>> THEN Zeros(IF n < 0 THEN 0 ELSE n)
  ELSE IF n = 1 THEN << IF d[1] >= 5 THEN 1 ELSE 0 >>
  ELSE Let(n \div 2, LAMBDA k :
         Let(Shift(d, k), LAMBDA rest : DoubledBits(d, k) \o DoubledBits(rest, n - k)))

\* The first n bits of the fraction 0.d, and one more bit that tells whether
\* anything is left after them.
FracToBits(d, n) ==
  DoubledBits(d, n)
  \o Let(Shift(d, n), LAMBDA r : << IF \E i \in 1..Len(r) : r[i] # 0 THEN 1 ELSE 0 >>)

\* The length of the run of decimal digits that u has from place i on.
DigitRun(u, i) ==
  CHOOSE c \in 0..(Len(u) - i + 1) :
    /\ \A j \in i..(i + c - 1) : u[j] \in 48..57
    /\ (i + c > Len(u) \/ u[i + c] \notin 48..57)

RECURSIVE NatAt(_, _, _)
\* The number of the decimal digits of u from place i on, after acc.
NatAt(u, i, acc) == IF i > Len(u) THEN acc ELSE NatAt(u, i + 1, 10 * acc + (u[i] - 48))

\* The exponent part of a decimal literal u, which begins at place x (past
\* the end of u when there is none): whether it is well formed, and the
\* exponent, capped at 999999999 (a text of the greatest length a string has
\* cannot offset a larger one).
Exponent(u, x) ==
  IF x > Len(u) THEN [ok |-> TRUE, e |-> 0]
  ELSE LET n == Len(u)
           e0 == x + (IF x < n /\ u[x + 1] \in { 43, 45 } THEN 2 ELSE 1)
       IN  IF ~(u[x] \in { 69, 101 } /\ e0 <= n /\ DigitRun(u, e0) = n - e0 + 1)
           THEN [ok |-> FALSE, e |-> 0]
           ELSE LET ez == CHOOSE i \in e0..n :
                            (i = n \/ u[i] # 48) /\ \A j \in e0..(i - 1) : u[j] = 48
                    emag == IF n - ez + 1 > 9 THEN 999999999 ELSE NatAt(u, ez, 0)
                IN  [ok |-> TRUE, e |-> IF u[e0 - 1] = 45 THEN 0 - emag ELSE emag]

\* The decimal digits of 5^1075: 2^(-1075), half the least double, is
\* 0.HalfLeast * 10^(-323).
HalfLeast ==
  Let(Shift(<<1>> \o Zeros(1075), -1075), LAMBDA d :
    SubSeq(d, CHOOSE i \in 1..Len(d) : d[i] # 0 /\ \A j \in 1..(i - 1) : d[j] = 0, Len(d)))

\* 0.a <= 0.b for the decimal digits a and b
FractionAtMost(a, b) ==
  LET n == IF Len(a) > Len(b) THEN Len(a) ELSE Len(b)
      A(i) == IF i <= Len(a) THEN a[i] ELSE 0
      B(i) == IF i <= Len(b) THEN b[i] ELSE 0
  IN  \A i \in 1..n : A(i) > B(i) => \E j \in 1..(i - 1) : A(j) < B(j)

\* 0.sig * 10^point rounds to zero: it is at most half the least double (a
\* tie goes to the even neighbour, zero).
Underflows(sig, point) ==
  point < -323 \/ (point = -323 /\ FractionAtMost(sig, HalfLeast))

\* The number 0.sig * 10^point of the significant decimal digits sig, with
\* the sign sgn.  A decimal of 10^18 or more stands as 2^60: the parser takes
\* the low four bits of a number, and compares it with a loop index.
DecimalValue(sgn, sig, point) ==
  LET int == IF point <= 0 THEN <<>>
             ELSE IF point <= Len(sig) THEN SubSeq(sig, 1, point)
             ELSE sig \o Zeros(point - Len(sig))
      frac == IF point <= 0 THEN Zeros(0 - point) \o sig
              ELSE IF point <= Len(sig) THEN SubSeq(sig, point + 1, Len(sig))
              ELSE <<>>
  IN  IF sig = <<>> \/ point < -1
      THEN Number("finite", sgn, <<>>, sig # <<>> /\ ~Underflows(sig, point))
      ELSE IF point >= 18 THEN Number("finite", sgn, <<1>> \o Zeros(60), FALSE)
      ELSE Let(<< DecToBits(int), FracToBits(frac, 55) >>,
               LAMBDA bits : Rounded(sgn, bits[1], bits[2]))

\* The decimal literal u, digits [. digits] [e [sign] digits], ip and fp the
\* lengths of its integer and fraction digits: whether u is such a literal,
\* and the digits sig from its first significant one with the place point of
\* the decimal point, the value being 0.sig * 10^point.
DecimalParts(u, ip, fp) ==
  LET dot == IF ip < Len(u) /\ u[ip + 1] = 46 THEN 1 ELSE 0
      digs == [i \in 1..(ip + fp) |-> IF i <= ip THEN u[i] - 48 ELSE u[i + 1] - 48]
      nz == CHOOSE i \in 1..(ip + fp + 1) :
              (i > ip + fp \/ digs[i] # 0) /\ \A j \in 1..(i - 1) : digs[j] = 0
  IN  Let(Exponent(u, ip + dot + fp + 1), LAMBDA x :
        IF ip + fp = 0 \/ ~x.ok THEN [ok |-> FALSE, sig |-> <<>>, point |-> 0]
        ELSE Let(nz, LAMBDA z :
               [ok |-> TRUE, sig |-> SubSeq(digs, z, ip + fp), point |-> (ip - (z - 1)) + x.e]))

\* The decimal literal u with the sign sgn: its number, or NaN when u is no
\* such literal.
DecimalLiteral(sgn, u, ip, fp) ==
  Let(DecimalParts(u, ip, fp), LAMBDA l :
    IF l.ok THEN DecimalValue(sgn, l.sig, l.point) ELSE NaN)

\* The literal t, 0x, 0o or 0b and digits: its number, or NaN when t is no
\* such literal.
RadixLiteral(t) ==
  LET Val(c) == IF c \in 48..57 THEN c - 48 ELSE IF c \in 97..102 THEN c - 87
                ELSE IF c \in 65..70 THEN c - 55 ELSE 99
      w == CASE t[2] \in { 88, 120 } -> 4 [] t[2] \in { 79, 111 } -> 3
             [] t[2] \in { 66, 98 } -> 1 [] OTHER -> 0
  IN  IF Len(t) >= 3 /\ t[1] = 48 /\ w > 0 /\ \A i \in 3..Len(t) : Val(t[i]) < 2^w
      THEN Let([i \in 1..(w * (Len(t) - 2)) |->
                  (Val(t[3 + (i - 1) \div w]) \div 2^(w - 1 - ((i - 1) % w))) % 2],
               LAMBDA bits : Rounded(0, bits, <<>>))
      ELSE NaN

\* s without the white space at its ends
Trimmed(s) ==
  LET White == { 9, 10, 11, 12, 13, 32, 160, 5760, 8232, 8233, 8239, 8287, 12288, 65279 }
               \cup (8192..8202)
      a == CHOOSE i \in 1..(Len(s) + 1) :
             (i > Len(s) \/ s[i] \notin White) /\ \A j \in 1..(i - 1) : s[j] \in White
      b == CHOOSE i \in 0..Len(s) :
             (i = 0 \/ s[i] \notin White) /\ \A j \in (i + 1)..Len(s) : s[j] \in White
  IN  SubSeq(s, a, b)

\* StringToNumber(s): the string is trimmed of white space and read as a
\* StringNumericLiteral (decimal with fraction and exponent, Infinity, or 0x,
\* 0o, 0b digits); what is no such literal is NaN.
StringToNumber(s) ==
  Let(Trimmed(s), LAMBDA t :
    IF t = <<>> THEN Number("finite", 0, <<>>, FALSE)
    ELSE IF RadixLiteral(t) # NaN THEN RadixLiteral(t)
    ELSE Let(IF t[1] \in { 43, 45 } THEN Tail(t) ELSE t, LAMBDA u :
           LET sgn == IF t[1] = 45 THEN 1 ELSE 0
           IN  IF u = S_Infinity THEN Number("inf", sgn, <<>>, FALSE)
               ELSE Let(DigitRun(u, 1), LAMBDA ip :
                      Let(IF ip < Len(u) /\ u[ip + 1] = 46 THEN DigitRun(u, ip + 2) ELSE 0,
                          LAMBDA fp : DecimalLiteral(sgn, u, ip, fp)))))

\* The double nearest the binary number whose bits are all, with the binary
\* point after the first k of them (ties to even): its 53 significand bits m
\* and exponent x, as Ieee gives them.  The last bit of all stands for all
\* the bits after it; a number below 2^(-1022) keeps the bits down to
\* 2^(-1074), and one that rounds to 2^1024 or more is infinite.
BitsDouble(all, k) ==
  LET n == Len(all)
      z == CHOOSE i \in 0..n : (i = n \/ all[i + 1] = 1) /\ \A j \in 1..i : all[j] = 0
      q == IF k - (z + 1) >= -1022 THEN z + 53 ELSE k + 1074
      B(i) == IF 1 <= i /\ i <= n THEN all[i] ELSE 0
      up == B(q + 1) = 1 /\ (B(q) = 1 \/ \E j \in (q + 2)..n : all[j] = 1)
      kept == [i \in 1..53 |-> B(q - 53 + i)]
      c == CHOOSE i \in 0..53 : (i = 0 \/ kept[i] = 0) /\ \A j \in (i + 1)..53 : kept[j] = 1
      m == IF ~up THEN kept
           ELSE IF c = 0 THEN <<1>> \o Zeros(52)
           ELSE [i \in 1..53 |-> IF i < c THEN kept[i] ELSE IF i = c THEN 1 ELSE 0]
      x == (k - q) + (IF up /\ c = 0 THEN 1 ELSE 0)
  IN  [ m |-> <<>> \o m, x |-> x,
        kind |-> IF \A i \in 1..53 : m[i] = 0 THEN "zero"
                 ELSE IF x + 52 >= 1024 THEN "inf" ELSE "finite" ]

\* The double nearest 0.sig * 10^point, sig the significant decimal digits.
DecimalDouble(sig, point) ==
  LET int == IF point <= 0 THEN <<>>
             ELSE IF point <= Len(sig) THEN SubSeq(sig, 1, point)
             ELSE sig \o Zeros(point - Len(sig))
      frac == IF point <= 0 THEN Zeros(0 - point) \o sig
              ELSE IF point <= Len(sig) THEN SubSeq(sig, point + 1, Len(sig))
              ELSE <<>>
      zd == CHOOSE i \in 0..Len(frac) :
              (i = Len(frac) \/ frac[i + 1] # 0) /\ \A j \in 1..i : frac[j] = 0
      wide == 4 * (zd + 1) + 54
  IN  IF sig = <<>> \/ point < -330 THEN [m |-> Zeros(53), x |-> 0, kind |-> "zero"]
      ELSE IF point > 310 THEN [m |-> Zeros(53), x |-> 0, kind |-> "inf"]
      ELSE Let(DecToBits(int), LAMBDA ib :
             IF Len(ib) >= 55
             THEN BitsDouble(ib \o << IF zd < Len(frac) THEN 1 ELSE 0 >>, Len(ib))
             ELSE Let(FracToBits(frac, IF Len(ib) > 0 THEN 55 - Len(ib)
                                       ELSE IF wide > 1075 THEN 1075 ELSE wide),
                      LAMBDA fb : BitsDouble(ib \o fb, Len(ib))))

\* ToNumber(s) of a string s as a double: its kind, sign, significand bits
\* and exponent.
TextDouble(s) ==
  LET D(sgn, d) == [kind |-> d.kind, sign |-> sgn, m |-> d.m, x |-> d.x]
  IN  Let(Trimmed(s), LAMBDA t :
        IF t = <<>> THEN D(0, DecimalDouble(<<>>, 0))
        ELSE IF RadixLiteral(t) # NaN
        THEN Let(RadixLiteral(t).int, LAMBDA b : D(0, BitsDouble(b \o <<0>>, Len(b))))
        ELSE Let(IF t[1] \in { 43, 45 } THEN Tail(t) ELSE t, LAMBDA u :
               LET sgn == IF t[1] = 45 THEN 1 ELSE 0
               IN  IF u = S_Infinity THEN D(sgn, DecimalDouble(<<1>>, 311))
                   ELSE Let(DigitRun(u, 1), LAMBDA ip :
                          Let(IF ip < Len(u) /\ u[ip + 1] = 46 THEN DigitRun(u, ip + 2) ELSE 0,
                              LAMBDA fp :
                                Let(DecimalParts(u, ip, fp), LAMBDA l :
                                  IF ~l.ok THEN [kind |-> "nan", sign |-> 0, m |-> Zeros(53), x |-> 0]
                                  ELSE D(sgn, DecimalDouble(l.sig, l.point)))))))

\* Number::toString of a double
DoubleText(d) ==
  CASE d.kind = "nan" -> S_NaN
    [] d.kind = "zero" -> <<48>>
    [] d.kind = "inf" -> (IF d.sign = 1 THEN <<45>> ELSE <<>>) \o S_Infinity
    [] OTHER -> (IF d.sign = 1 THEN <<45>> ELSE <<>>) \o NumberToString(d.m, d.x)

\* CanonicalNumericIndexString(key) is not undefined: key is "-0", or the
\* text of the number it converts to (which has no more than 25 characters).
CanonicalNumeric(key) ==
  \/ key = <<45, 48>>
  \/ Len(key) <= 25 /\ DoubleText(TextDouble(key)) = key

\* The number a double or float read from the buffer is.
DoubleToNumber(bs) ==
  Let(Ieee(bs), LAMBDA d :
    CASE d.kind = "nan" -> NaN
      [] d.kind = "inf" -> Number("inf", d.sign, <<>>, FALSE)
      [] d.kind = "zero" -> Number("finite", d.sign, <<>>, FALSE)
      [] OTHER ->
           IF d.x >= 0 THEN Number("finite", d.sign, d.m \o Zeros(d.x), FALSE)
           ELSE Number("finite", d.sign, SubSeq(d.m, 1, 53 + d.x),
                       \E j \in (IF d.x < -53 THEN 1 ELSE 54 + d.x)..53 : d.m[j] = 1))

RECURSIVE NatBits(_)
\* The bits of a natural number.
NatBits(n) == IF n = 0 THEN <<>> ELSE NatBits(n \div 2) \o <<n % 2>>

RECURSIVE KeyIndex(_)
\* The number an array index names.
KeyIndex(key) ==
  IF key = <<>> THEN 0 ELSE 10 * KeyIndex(SubSeq(key, 1, Len(key) - 1)) + (key[Len(key)] - 48)

\* -------------------------------------------------------------- the state

VARIABLES
  buf,                  \* the bytes of the buffer read so far
  len,                  \* buf.length, or -1 while the parse has not met the end
  avail,                \* the bytes the buffer is known to hold at least
  pos,                  \* this.pos
  nextHandle,           \* this.nextHandle
  handles,              \* this.handles, a function of the handles written
  contents,             \* this.contents
  heap,                 \* the objects created so far, by identity
  stack,                \* the call stack below the constructor
  ret,                  \* the value the last completed call returned
  pc,                   \* where the constructor is
  err,                  \* the message of the error thrown, if any
  calls,                \* content() calls made so far
  fam,                  \* the family of inputs the buffer is drawn from
  classDataParsers,     \* the registry of class-data parsers
  classPostProcessors,  \* the registry of post-processors
  hlog,                 \* history: every write to this.handles, in order
  clog,                 \* history: what classdata() returned for each class, and the
                        \* entries the for-in loop copied from it, in order
  plog,                 \* history: the steps of classdata() under mode 0x03, in order
  last                  \* history: the step taken last

vars ==
  << buf, len, avail, pos, nextHandle, handles, contents, heap, stack, ret, pc, err,
     calls, fam, classDataParsers, classPostProcessors, hlog, clog, plog, last >>

\* what no step of a parse changes
registry == << classDataParsers, classPostProcessors, fam >>

\* The running activation, and the activations below it.
Top == stack[Len(stack)]
Rest == SubSeq(stack, 1, Len(stack) - 1)


\* ------------------------------------------------- the inputs that are drawn

\* The tag byte of a name of the tag list.
Tag(n) == TagBase + (CHOOSE i \in 1..Len(names) : names[i] = n) - 1

MagicWords == { <<172, 237>>, <<172, 238>> }
VersionWords == { <<0, 5>>, <<0, 4>> }
AllTags == (TagBase .. TagBase + 14) \cup { TagBase - 1, TagBase + 15, TagBase + 16 }

\* The char codes of the strings the parser and its inputs name.
S_null == <<110, 117, 108, 108>>
S_undefined == <<117, 110, 100, 101, 102, 105, 110, 101, 100>>
S_object == <<91, 111, 98, 106, 101, 99, 116, 32, 79, 98, 106, 101, 99, 116, 93>>
S_true == <<116, 114, 117, 101>>
S_false == <<102, 97, 108, 115, 101>>
S_at == <<64>>
S_class == <<99, 108, 97, 115, 115>>
S_extends == <<101, 120, 116, 101, 110, 100, 115>>
S_A == <<65>>
S_B == <<66>>
S_f == <<102>>
S_g == <<103>>
S_ArrI == <<91, 73>>
S_ArrL == <<91, 76>>
S_ArrD == <<91, 68>>
S_1 == <<49>>
S_2 == <<50>>
S_0xC == <<48, 120, 67>>
S_proto == <<95, 95, 112, 114, 111, 116, 111, 95, 95>>
S_flags == <<102, 108, 97, 103, 115>>
S_super == <<115, 117, 112, 101, 114>>
S_toString == <<116, 111, 83, 116, 114, 105, 110, 103>>
S_offset == <<111, 102, 102, 115, 101, 116>>
S_parent == <<112, 97, 114, 101, 110, 116>>
T_I == 73
T_L == 76
T_X == 88

\* The families of input buffers.  The k-th content() call of a parse reads
\* its tag byte from the k-th set of the family's tags, and a parse makes no
\* more content() calls than the family lists; back-reference offsets, class
\* names, flag bytes, field counts, field type codes, field names and string
\* texts come from the family's sets.
\* The serialVersionUID arguments drawn for a registration: the hex form of
\* the UID drawn for the stream, 16 characters that are no hex digits, and
\* 15 hex digits.
U_stream == <<48, 48, 48, 48, 48, 48, 48, 48, 48, 48, 48, 48, 49, 50, 51, 52>>
U_nohex == <<122, 122, 122, 122, 122, 122, 122, 122, 122, 122, 122, 122, 122, 122, 122, 122>>
U_short == <<48, 48, 48, 48, 48, 48, 48, 48, 48, 48, 48, 48, 48, 48, 49>>

\* The (className, serialVersionUID) arguments drawn for a registration.
RegChoices ==
  { [name |-> S_A, uid |-> U_stream], [name |-> S_B, uid |-> U_stream],
    [name |-> S_A, uid |-> U_nohex], [name |-> S_A, uid |-> U_short] }

Families ==
  << \* every tag byte, known or not, at the top level and under it
     [ tags |-> << AllTags, AllTags, { Tag("Null"), Tag("EndBlockData"), Tag("Reference") } >>,
       refs |-> {0}, names |-> {S_A}, flags |-> {2}, counts |-> {0},
       types |-> {T_I}, fnames |-> {S_f}, strings |-> {S_A, S_B},
       blocks |-> {65},
       regs |-> {} ],
     \* an object of a class with a super class, then a back reference
     [ tags |-> << { Tag("Object") },
                   { Tag("ClassDesc"), Tag("Null"), Tag("Reference") },
                   { Tag("EndBlockData") },
                   { Tag("ClassDesc"), Tag("Null"), Tag("Reference") },
                   { Tag("EndBlockData") },
                   { Tag("Null"), Tag("Reference") },
                   { Tag("Reference"), Tag("EndBlockData") } >>,
       refs |-> 0..2, names |-> {S_A, S_B}, flags |-> {2, 3, 12}, counts |-> 0..MaxFields,
       types |-> {T_I}, fnames |-> {S_f, S_g}, strings |-> {S_A},
       blocks |-> {65},
       regs |-> {} ],
     \* an object with a field read through content()
     [ tags |-> << { Tag("Object") }, { Tag("ClassDesc") },
                   { Tag("String"), Tag("EndBlockData"), Tag("Null") },
                   { Tag("EndBlockData") }, { Tag("Null") },
                   { Tag("String"), Tag("LongString"), Tag("Null"), Tag("EndBlockData"),
                     Tag("Reference"), Tag("BlockData") },
                   { Tag("Reference"), Tag("Null") } >>,
       refs |-> 0..3, names |-> {S_A, S_class}, flags |-> {2, 4, 0}, counts |-> 0..MaxFields,
       types |-> {T_L, T_X}, fnames |-> {S_f, S_class}, strings |-> {S_A},
       blocks |-> {0, 65},
       regs |-> {} ],
     \* arrays of primitives and of objects
     [ tags |-> << { Tag("Array") }, { Tag("ClassDesc"), Tag("Null") },
                   { Tag("EndBlockData") }, { Tag("Null") },
                   { Tag("String"), Tag("Reference"), Tag("EndBlockData"), Tag("Null") },
                   { Tag("Reference"), Tag("String") } >>,
       refs |-> 0..2, names |-> {S_A, S_ArrI, S_ArrL}, flags |-> {2}, counts |-> {0},
       types |-> {T_I}, fnames |-> {S_f}, strings |-> {S_A},
       blocks |-> {65},
       regs |-> {} ],
     \* enum constants, then a back reference, a second enum, or a class
     \* object whose class is a back reference
     [ tags |-> << { Tag("Enum") }, { Tag("ClassDesc"), Tag("Null") },
                   { Tag("EndBlockData") }, { Tag("Null") },
                   { Tag("String"), Tag("Reference"), Tag("EndBlockData"), Tag("BlockData") },
                   { Tag("Reference"), Tag("Enum"), Tag("Class") },
                   { Tag("Reference") } >>,
       refs |-> 0..2, names |-> {S_A}, flags |-> {18}, counts |-> {0},
       types |-> {T_I}, fnames |-> {S_f}, strings |-> {S_A, S_B},
       blocks |-> {65, 195},
       regs |-> {} ],
     \* class objects
     [ tags |-> << { Tag("Class"), Tag("String") },
                   { Tag("ClassDesc"), Tag("Null"), Tag("Reference"), Tag("Class") },
                   { Tag("EndBlockData"), Tag("Reference"), Tag("ClassDesc") },
                   { Tag("Null"), Tag("EndBlockData") },
                   { Tag("Reference"), Tag("Class"), Tag("Null") },
                   { Tag("Reference") } >>,
       refs |-> 0..2, names |-> {S_A}, flags |-> {2}, counts |-> {0},
       types |-> {T_I}, fnames |-> {S_f}, strings |-> {S_A},
       blocks |-> {65},
       regs |-> {} ],
     \* annotation blocks: class annotations and the data of write methods
     [ tags |-> << { Tag("Object") }, { Tag("ClassDesc") },
                   { Tag("EndBlockData"), Tag("BlockData"), Tag("String") },
                   { Tag("EndBlockData"), Tag("Null") },
                   { Tag("Null"), Tag("EndBlockData") },
                   { Tag("BlockData"), Tag("BlockDataLong"), Tag("EndBlockData"), Tag("String") },
                   { Tag("EndBlockData"), Tag("BlockData") },
                   { Tag("EndBlockData"), Tag("BlockData"), Tag("Reference") } >>,
       refs |-> 0..1, names |-> {S_A}, flags |-> {3, 12}, counts |-> 0..MaxFields,
       types |-> {T_I}, fnames |-> {S_f, S_at}, strings |-> {S_A},
       blocks |-> {65},
       regs |-> {} ],
     \* an object inside the annotations of its own class's descriptor
     [ tags |-> << { Tag("Object") }, { Tag("ClassDesc") }, { Tag("Object") },
                   { Tag("Reference") }, { Tag("EndBlockData") },
                   { Tag("ClassDesc"), Tag("Null") }, { Tag("EndBlockData") },
                   { Tag("Null") } >>,
       refs |-> 0..1, names |-> {S_A, S_B}, flags |-> {2}, counts |-> 0..MaxFields,
       types |-> {T_I}, fnames |-> {S_f}, strings |-> {S_A},
       blocks |-> {65},
       regs |-> {} ],
     \* an object of a class with or without a write method, parsed under
     \* registered class-data parsers and post-processors
     [ tags |-> << { Tag("Object") }, { Tag("ClassDesc") }, { Tag("EndBlockData") },
                   { Tag("Null") }, { Tag("EndBlockData"), Tag("String") },
                   { Tag("EndBlockData") } >>,
       refs |-> {0}, names |-> {S_A}, flags |-> {2, 3}, counts |-> 0..MaxFields,
       types |-> {T_I}, fnames |-> {S_f}, strings |-> {S_B},
       blocks |-> {65},
       regs |-> RegChoices ],
     \* class names and field names that are array indices, or __proto__
     [ tags |-> << { Tag("Object") }, { Tag("ClassDesc") }, { Tag("EndBlockData") },
                   { Tag("ClassDesc"), Tag("Null") }, { Tag("EndBlockData") },
                   { Tag("Null") } >>,
       refs |-> {0}, names |-> {S_A, S_1, S_proto}, flags |-> {2}, counts |-> 0..MaxFields,
       types |-> {T_I}, fnames |-> {S_f, S_1, S_proto}, strings |-> {S_A},
       blocks |-> {65},
       regs |-> {} ],
     \* an enum constant that is an array of doubles
     [ tags |-> << { Tag("Enum") }, { Tag("ClassDesc") }, { Tag("EndBlockData") },
                   { Tag("Null") }, { Tag("Array") }, { Tag("ClassDesc") },
                   { Tag("EndBlockData") }, { Tag("Null") } >>,
       refs |-> {0}, names |-> {S_ArrD}, flags |-> {18}, counts |-> {0},
       types |-> {T_I}, fnames |-> {S_f}, strings |-> {S_A},
       blocks |-> {65},
       regs |-> {} ],
     \* an object whose class is a reference to an object: the name, the flags
     \* or the super class of the class are what a field of that object holds
     [ tags |-> << { Tag("Object") }, { Tag("ClassDesc") }, { Tag("Null") },
                   { Tag("EndBlockData") }, { Tag("Null") }, { Tag("String"), Tag("Null") },
                   { Tag("Object") }, { Tag("Reference") }, { Tag("EndBlockData") } >>,
       refs |-> {1}, names |-> {S_A}, flags |-> {2}, counts |-> {1},
       types |-> {T_L}, fnames |-> {S_flags, S_super, S_toString},
       strings |-> {S_2, S_0xC, S_A},
       blocks |-> {65},
       regs |-> {} ],
     \* an object with one or two fields named __proto__, whose values are
     \* null, a block, a string, the class descriptor or the object itself, then an enum
     \* whose class and constant are back references
     [ tags |-> << { Tag("Object") }, { Tag("ClassDesc") }, { Tag("Null") },
                   { Tag("Null"), Tag("EndBlockData") }, { Tag("EndBlockData"), Tag("Null") },
                   { Tag("Null"), Tag("BlockData") },
                   { Tag("Null"), Tag("Reference"), Tag("BlockData") },
                   { Tag("Null"), Tag("Reference"), Tag("BlockData"), Tag("String") },
                   { Tag("Enum") }, { Tag("Reference") }, { Tag("Reference") } >>,
       refs |-> {0, 1}, names |-> {S_A}, flags |-> {2}, counts |-> {1, 2},
       types |-> {T_L}, fnames |-> {S_proto}, strings |-> {S_A},
       blocks |-> {51},
       regs |-> {} ],
     \* an object of a class with a super class, each with or without a
     \* write method, parsed under class-data parsers and post-processors
     \* registered for either class
     [ tags |-> << { Tag("Object") }, { Tag("ClassDesc") }, { Tag("EndBlockData") },
                   { Tag("ClassDesc") }, { Tag("EndBlockData") }, { Tag("Null") },
                   { Tag("EndBlockData"), Tag("String") }, { Tag("EndBlockData") },
                   { Tag("EndBlockData") } >>,
       refs |-> {0}, names |-> {S_A, S_B}, flags |-> {2, 3}, counts |-> {0},
       types |-> {T_I}, fnames |-> {S_f}, strings |-> {S_B},
       blocks |-> {65},
       regs |-> { [name |-> S_A, uid |-> U_stream], [name |-> S_B, uid |-> U_stream] } ],
     \* an object with three fields named parent, offset or __proto__, the
     \* last one a block: the values inherit from a Buffer, and hide one,
     \* both or none of the accessors of Buffer.prototype
     [ tags |-> << { Tag("Object") }, { Tag("ClassDesc") }, { Tag("Null") },
                   { Tag("EndBlockData") }, { Tag("Null") }, { Tag("BlockData") } >>,
       refs |-> {0}, names |-> {S_A}, flags |-> {2}, counts |-> {3},
       types |-> {T_I, T_L}, fnames |-> {S_parent, S_offset, S_proto}, strings |-> {S_A},
       blocks |-> {65},
       regs |-> {} ] >>


\* content() calls explored in a parse of the family.
CallBudget == Len(Families[fam].tags)

TagBytes == Families[fam].tags[calls + 1]
RefWords == { U32(BaseHandle + i) : i \in Families[fam].refs } \cup { <<0, 0, 0, 0>> }
ClassNames == Families[fam].names
Uids == { <<0, 0, 0, 0, 0, 0, 18, 52>> }
FlagBytes == Families[fam].flags
FieldCounts == Families[fam].counts
TypeBytes == Families[fam].types
FieldNames == Families[fam].fnames
StringTexts == Families[fam].strings
IntWords == { <<0, 0, 0, 123>>, <<0, 0, 1, 89>> }
ArrayLens == { U32(i) : i \in 0..MaxArray } \cup { <<255, 255, 255, 255>> }
HighWords == { <<0, 0, 0, 0>>, <<0, 0, 0, 1>> }
\* 8 bytes: 12.34 and 0 as doubles
DoubleWords == { <<64, 40, 174, 20, 122, 225, 71, 174>>, Zeros(8) }

\* The bytes drawn for the payload of a block.
BlockBytes == Families[fam].blocks

\* The bytes drawn for a fixed-width primitive of width w.
PrimBytes(w) ==
  CASE w = 4 -> IntWords
    [] w = 8 -> DoubleWords
    [] OTHER -> { Zeros(w - 1) \o <<235>> }

\* ------------------------------------------------------ the cursor: step

RECURSIVE SumLen(_, _)
\* The bytes the first k of the chunks chs take.
SumLen(chs, k) == IF k = 0 THEN 0 ELSE SumLen(chs, k - 1) + Len(chs[k])

RECURSIVE Concat(_, _)
Concat(chs, k) == IF k = 0 THEN <<>> ELSE Concat(chs, k - 1) \o chs[k]

\* step(len) in a buffer of length L: whether a read of n bytes at offset p
\* stays inside the buffer.
StepOk(p, n, L) == ~(p + n > L)

\* The lengths the buffer may still have.
Lens == IF len >= 0 THEN {len} ELSE avail..MaxLen

\* What the parse knows of the length after comparing it with need, in a
\* buffer of length L.
Learn(L, need) ==
  IF len >= 0 THEN [len |-> len, avail |-> avail]
  ELSE IF L >= need THEN [len |-> -1, avail |-> IF need > avail THEN need ELSE avail]
  ELSE [len |-> L, avail |-> L]

\* Consecutive step() calls for the chunks chs, from this.pos, in a buffer of
\* length L: n is the number of leading reads that succeed; a failing step
\* has advanced pos already.
ReadAt(chs, L) ==
  LET k == Cardinality({ j \in 1..Len(chs) : StepOk(pos, SumLen(chs, j), L) })
      ok == k = Len(chs)
      know == Learn(L, pos + SumLen(chs, IF ok THEN k ELSE k + 1))
  IN  [ n |-> k, ok |-> ok,
        pos |-> pos + SumLen(chs, IF ok THEN k ELSE k + 1),
        buf |-> buf \o Concat(chs, k),
        len |-> know.len, avail |-> know.avail ]

\* The outcomes of reading the chunks chs, over the lengths still possible.
Reads(chs) == { ReadAt(chs, L) : L \in Lens }

Cursor(r) == buf' = r.buf /\ pos' = r.pos /\ len' = r.len /\ avail' = r.avail

NoRead == UNCHANGED << buf, pos, len, avail >>

\* ------------------------------------------------------- the handle table

\* A faulty lookup: the slot before the one asked for.
HandleGetOffByOne(h) == IF h - 1 \in DOMAIN handles THEN handles[h - 1] ELSE Undefined

\* this.handles[h]
HandleGet(h) == IF h \in DOMAIN handles THEN handles[h] ELSE Undefined

\* A faulty allocation: this.handles[this.nextHandle] = obj, with no increment.
NewHandleNoIncrement(h, obj) ==
  /\ handles' = (h :> obj) @@ handles
  /\ nextHandle' = h
  /\ hlog' = Append(hlog, [op |-> "newHandle", h |-> h, v |-> obj, by |-> Top.fn])

\* newHandle(obj): this.handles[this.nextHandle++] = obj
NewHandleAt(h, obj) ==
  /\ handles' = (h :> obj) @@ handles
  /\ nextHandle' = h + 1
  /\ hlog' = Append(hlog, [op |-> "newHandle", h |-> h, v |-> obj, by |-> Top.fn])

\* A faulty newHandle: the value is returned, and no handle is assigned.
newHandleSkipped(obj) == UNCHANGED << nextHandle, handles, hlog >>

newHandle(obj) == NewHandleAt(nextHandle, obj)

\* newDeferredHandle(): idx = this.nextHandle++; handles[idx] = null
newDeferredHandle ==
  /\ handles' = (nextHandle :> Null) @@ handles
  /\ nextHandle' = nextHandle + 1
  /\ hlog' = Append(hlog, [op |-> "reserve", h |-> nextHandle, v |-> Null, by |-> Top.fn])

\* A faulty closure: it fills the newest slot, not the one it reserved.
FillDeferredNewest(idx, obj) ==
  /\ handles' = ((nextHandle - 1) :> obj) @@ handles
  /\ nextHandle' = nextHandle
  /\ hlog' = Append(hlog, [op |-> "fill", h |-> nextHandle - 1, v |-> obj, by |-> Top.fn])

\* the closure newDeferredHandle returned: handles[idx] = obj
FillDeferred(idx, obj) ==
  /\ handles' = (idx :> obj) @@ handles
  /\ nextHandle' = nextHandle
  /\ hlog' = Append(hlog, [op |-> "fill", h |-> idx, v |-> obj, by |-> Top.fn])

NoHandle == UNCHANGED << nextHandle, handles, hlog >>

\* ---------------------------------------------------- objects and strings

\* The char codes of the property names the parser reads.
PropKey(p) ==
  CASE p = "name" -> <<110, 97, 109, 101>>
    [] p = "serialVersionUID" ->
         <<115, 101, 114, 105, 97, 108, 86, 101, 114, 115, 105, 111, 110, 85, 73, 68>>
    [] p = "flags" -> S_flags
    [] p = "fields" -> <<102, 105, 101, 108, 100, 115>>
    [] p = "super" -> S_super
    [] p = "class" -> S_class
    [] p = "extends" -> S_extends
    [] p = "isEnum" -> <<105, 115, 69, 110, 117, 109>>
    [] p = "annotations" -> <<97, 110, 110, 111, 116, 97, 116, 105, 111, 110, 115>>
    [] p = "length" -> <<108, 101, 110, 103, 116, 104>>
    [] p = "type" -> <<116, 121, 112, 101>>
    [] p = "className" -> <<99, 108, 97, 115, 115, 78, 97, 109, 101>>
    [] p = "low" -> <<108, 111, 119>>
    [] p = "high" -> <<104, 105, 103, 104>>
    [] p = "unsigned" -> <<117, 110, 115, 105, 103, 110, 101, 100>>
    [] p = "toString" -> S_toString
    [] p = "__proto__" -> S_proto
    [] p = "join" -> <<106, 111, 105, 110>>
    [] p = "buffer" -> <<98, 117, 102, 102, 101, 114>>
    [] p = "byteLength" -> <<98, 121, 116, 101, 76, 101, 110, 103, 116, 104>>
    [] p = "byteOffset" -> <<98, 121, 116, 101, 79, 102, 102, 115, 101, 116>>
    [] p = "parent" -> <<112, 97, 114, 101, 110, 116>>
    [] p = "offset" -> <<111, 102, 102, 115, 101, 116>>
    [] p = "__isLong__" -> <<95, 95, 105, 115, 76, 111, 110, 103, 95, 95>>

Nullish(x) == x.k = "null" \/ x.k = "undefined"

\* typeof x is "object" or "function", and x is not null
IsObject(x) ==
  x.k \notin { "null", "undefined", "string", "number", "boolean", "double", "float", "throws" }

\* A property key that is an array index: the canonical decimal form of an
\* integer below 2^32 - 1.
IsArrayIndex(key) ==
  /\ key # <<>> /\ \A i \in 1..Len(key) : key[i] \in 48..57
  /\ (Len(key) = 1 \/ key[1] # 48)
  /\ \/ Len(key) < 10
     \/ /\ Len(key) = 10
        /\ LET top == <<52, 50, 57, 52, 57, 54, 55, 50, 57, 52>>
           IN  key = top \/ \E i \in 1..10 : key[i] < top[i] /\ \A j \in 1..(i - 1) : key[j] = top[j]

\* The order of two array indices.
IndexBefore(a, b) ==
  \/ Len(a) < Len(b)
  \/ Len(a) = Len(b) /\ \E i \in 1..Len(a) : a[i] < b[i] /\ \A j \in 1..(i - 1) : a[j] = b[j]

\* The own enumerable properties of a plain object are a sequence of
\* <<key, value>>, in the order the language enumerates them: the array
\* indices in ascending order, then the other keys in the order of their
\* creation.  m[key]:
MapHas(m, key) == \E i \in 1..Len(m) : m[i][1] = key

MapGet(m, key) ==
  IF MapHas(m, key)
  THEN m[CHOOSE i \in 1..Len(m) : m[i][1] = key][2]
  ELSE Undefined

\* m[key] = val on the own properties m of an object: an existing key keeps
\* its place, a new array index goes among the indices in ascending order,
\* any other new key goes last.
MapSet(m, key, val) ==
  IF MapHas(m, key)
  THEN [i \in 1..Len(m) |-> IF m[i][1] = key THEN <<key, val>> ELSE m[i]]
  ELSE IF IsArrayIndex(key)
  THEN LET n == Cardinality({ i \in 1..Len(m) :
                              IsArrayIndex(m[i][1]) /\ IndexBefore(m[i][1], key) })
       IN  SubSeq(m, 1, n) \o << <<key, val>> >> \o SubSeq(m, n + 1, Len(m))
  ELSE Append(m, <<key, val>>)

\* Object.keys(m)
MapKeys(m) == [i \in 1..Len(m) |-> m[i][1]]

\* What a property read yields when a getter throws a TypeError.
Thrown == [k |-> "throws", v |-> <<>>]

\* A Buffer: one that BlockData sliced off the input, or this.buf itself.
IsBuffer(x) == x.k \in { "block", "buf" }

\* The bytes of a Buffer.  Of this.buf, the input, they are those read so
\* far: the parser reads the bytes after them at the cursor only, and no
\* value it converts or looks into is this.buf.
Bytes(x) == IF x.k = "buf" THEN buf ELSE x.v

\* The kind of object a value is: that of the heap record for a reference.
KindOf(h, x) == IF x.k = "ref" THEN h[x.v[1]].kind ELSE x.k

\* Object.getPrototypeOf(x) for an object x: a plain object and a
\* deserialized Object carry theirs, which the setter __proto__ replaces.
ProtoOf(h, x) ==
  LET kind == KindOf(h, x)
  IN  CASE kind = "map" -> x.proto
        [] kind = "obj" -> h[x.v[1]].proto
        [] kind \in { "arr", "list", "handles", "contents" } -> ArrayPrototype
        [] kind = "enum" -> StringPrototype
        [] kind \in { "block", "buf" } -> BufferPrototype
        [] kind = "long" -> LongPrototype
        [] kind = "parser" -> ParserPrototype
        [] kind = "prototype" -> IF x = ObjectPrototype THEN Null ELSE ObjectPrototype
        [] OTHER -> ObjectPrototype

\* The names of the accessors without a setter that a Buffer inherits: those
\* of %TypedArray%.prototype, and parent and offset of Buffer.prototype.
BufferGetters ==
  { PropKey("length"), PropKey("buffer"), PropKey("byteLength"), PropKey("byteOffset"),
    PropKey("parent"), PropKey("offset") }

\* The methods that Buffer.prototype has as enumerable properties before its
\* accessors parent and offset, in the order of their creation: read and write followed
\* by the names of the 64-bit integers, of the other integers and of the
\* floating-point numbers, then the names of the encodings followed by Slice
\* and Write.
\* readBigUInt64LE ... writeBigInt64BE
BigIntNames ==
  << <<66, 105, 103, 85, 73, 110, 116, 54, 52, 76, 69>>,  \* BigUInt64LE
     <<66, 105, 103, 85, 73, 110, 116, 54, 52, 66, 69>>,  \* BigUInt64BE
     <<66, 105, 103, 85, 105, 110, 116, 54, 52, 76, 69>>,  \* BigUint64LE
     <<66, 105, 103, 85, 105, 110, 116, 54, 52, 66, 69>>,  \* BigUint64BE
     <<66, 105, 103, 73, 110, 116, 54, 52, 76, 69>>,  \* BigInt64LE
     <<66, 105, 103, 73, 110, 116, 54, 52, 66, 69>> >>  \* BigInt64BE

\* readUIntLE ... writeInt16BE
IntNames ==
  << <<85, 73, 110, 116, 76, 69>>,  \* UIntLE
     <<85, 73, 110, 116, 51, 50, 76, 69>>,  \* UInt32LE
     <<85, 73, 110, 116, 49, 54, 76, 69>>,  \* UInt16LE
     <<85, 73, 110, 116, 56>>,  \* UInt8
     <<85, 73, 110, 116, 66, 69>>,  \* UIntBE
     <<85, 73, 110, 116, 51, 50, 66, 69>>,  \* UInt32BE
     <<85, 73, 110, 116, 49, 54, 66, 69>>,  \* UInt16BE
     <<85, 105, 110, 116, 76, 69>>,  \* UintLE
     <<85, 105, 110, 116, 51, 50, 76, 69>>,  \* Uint32LE
     <<85, 105, 110, 116, 49, 54, 76, 69>>,  \* Uint16LE
     <<85, 105, 110, 116, 56>>,  \* Uint8
     <<85, 105, 110, 116, 66, 69>>,  \* UintBE
     <<85, 105, 110, 116, 51, 50, 66, 69>>,  \* Uint32BE
     <<85, 105, 110, 116, 49, 54, 66, 69>>,  \* Uint16BE
     <<73, 110, 116, 76, 69>>,  \* IntLE
     <<73, 110, 116, 51, 50, 76, 69>>,  \* Int32LE
     <<73, 110, 116, 49, 54, 76, 69>>,  \* Int16LE
     <<73, 110, 116, 56>>,  \* Int8
     <<73, 110, 116, 66, 69>>,  \* IntBE
     <<73, 110, 116, 51, 50, 66, 69>>,  \* Int32BE
     <<73, 110, 116, 49, 54, 66, 69>> >>  \* Int16BE

\* readFloatLE ... writeDoubleBE
FloatNames ==
  << <<70, 108, 111, 97, 116, 76, 69>>,  \* FloatLE
     <<70, 108, 111, 97, 116, 66, 69>>,  \* FloatBE
     <<68, 111, 117, 98, 108, 101, 76, 69>>,  \* DoubleLE
     <<68, 111, 117, 98, 108, 101, 66, 69>> >>  \* DoubleBE

\* asciiSlice ... utf8Write
EncodingNames ==
  << <<97, 115, 99, 105, 105>>,  \* ascii
     <<98, 97, 115, 101, 54, 52>>,  \* base64
     <<98, 97, 115, 101, 54, 52, 117, 114, 108>>,  \* base64url
     <<108, 97, 116, 105, 110, 49>>,  \* latin1
     <<104, 101, 120>>,  \* hex
     <<117, 99, 115, 50>>,  \* ucs2
     <<117, 116, 102, 56>> >>  \* utf8

S_read == <<114, 101, 97, 100>>
S_write == <<119, 114, 105, 116, 101>>
S_Slice == <<83, 108, 105, 99, 101>>
S_Write == <<87, 114, 105, 116, 101>>

\* The names made of a prefix and each of the stems, or of each of the stems
\* and a suffix.
Prefixed(pre, stems) == [i \in 1..Len(stems) |-> pre \o stems[i]]
Suffixed(stems, suf) == [i \in 1..Len(stems) |-> stems[i] \o suf]

BufferMethods ==
  Prefixed(S_read, BigIntNames) \o Prefixed(S_write, BigIntNames)
  \o Prefixed(S_read, IntNames) \o Prefixed(S_write, IntNames)
  \o Prefixed(S_read, FloatNames) \o Prefixed(S_write, FloatNames)
  \o Suffixed(EncodingNames, S_Slice) \o Suffixed(EncodingNames, S_Write)

\* The methods that Buffer.prototype has as enumerable properties after its
\* accessors parent and offset, in the order of their creation.
LaterBufferMethods ==
  << <<99, 111, 112, 121>>,  \* copy
     <<116, 111, 83, 116, 114, 105, 110, 103>>,  \* toString
     <<101, 113, 117, 97, 108, 115>>,  \* equals
     <<105, 110, 115, 112, 101, 99, 116>>,  \* inspect
     <<99, 111, 109, 112, 97, 114, 101>>,  \* compare
     <<105, 110, 100, 101, 120, 79, 102>>,  \* indexOf
     <<108, 97, 115, 116, 73, 110, 100, 101, 120, 79, 102>>,  \* lastIndexOf
     <<105, 110, 99, 108, 117, 100, 101, 115>>,  \* includes
     <<102, 105, 108, 108>>,  \* fill
     <<119, 114, 105, 116, 101>>,  \* write
     <<116, 111, 74, 83, 79, 78>>,  \* toJSON
     <<115, 117, 98, 97, 114, 114, 97, 121>>,  \* subarray
     <<115, 108, 105, 99, 101>>,  \* slice
     <<115, 119, 97, 112, 49, 54>>,  \* swap16
     <<115, 119, 97, 112, 51, 50>>,  \* swap32
     <<115, 119, 97, 112, 54, 52>>,  \* swap64
     <<116, 111, 76, 111, 99, 97, 108, 101, 83, 116, 114, 105, 110, 103>> >>  \* toLocaleString


\* The function the method name of Buffer.prototype holds: the names with
\* Uint are aliases of those with UInt, and toLocaleString is toString.
BufferMethod(name) ==
  [k |-> "function",
   v |-> IF name = <<116, 111, 76, 111, 99, 97, 108, 101, 83, 116, 114, 105, 110, 103>> THEN S_toString
         ELSE [i \in 1..Len(name) |->
                 IF i > 1 /\ i < Len(name) /\ name[i - 1] = 85 /\ name[i] = 105
                    /\ name[i + 1] = 110
                 THEN 73 ELSE name[i]]]

\* The own enumerable properties of Buffer.prototype, in the order of their
\* creation: the methods, with the accessors parent and offset among them.
\* What stands for the value of an accessor is what its getter does on an
\* object that is no Buffer: it throws.
BufferPrototypeProps ==
  [i \in 1..Len(BufferMethods) |-> << BufferMethods[i], BufferMethod(BufferMethods[i]) >>]
  \o << << S_parent, Thrown >>, << S_offset, Thrown >> >>
  \o [i \in 1..Len(LaterBufferMethods) |->
        << LaterBufferMethods[i], BufferMethod(LaterBufferMethods[i]) >>]

\* key is the array index of one of n elements
HasIndex(n, key) == IsArrayIndex(key) /\ Len(key) < 10 /\ KeyIndex(key) < n

\* The own enumerable properties of the parser object, in the order the
\* constructor, magic() and version() create them: this.buf, this.handles
\* and this.contents are the buffer and the arrays themselves.
ParserProps ==
  << << <<98, 117, 102>>, [k |-> "buf", v |-> <<>>] >>,
     << <<112, 111, 115>>, Num(pos) >>,
     << <<110, 101, 120, 116, 72, 97, 110, 100, 108, 101>>, Num(nextHandle) >>,
     << <<104, 97, 110, 100, 108, 101, 115>>, [k |-> "handles", v |-> <<>>] >>,
     << <<99, 111, 110, 116, 101, 110, 116, 115>>, [k |-> "contents", v |-> <<>>] >> >>
  \o (IF pc = "magic" THEN <<>>
      ELSE << << <<109, 97, 103, 105, 99>>, Num(StreamMagic) >> >>)
  \o (IF pc \in { "magic", "version" } THEN <<>>
      ELSE << << <<118, 101, 114, 115, 105, 111, 110>>, Num(StreamVersion) >> >>)

\* The own property key of the object c: t is "data" for a writable data
\* property, "const" for one that is not writable, "accessor" for
\* Object.prototype.__proto__, "getter" for an accessor without a setter, and
\* "none" when c has no such property.  Of the methods of the built-in
\* prototypes, writable data the parser never reads, only the enumerable
\* ones of Buffer.prototype are told.
Own(h, c, key) ==
  LET kind == KindOf(h, c)
      o == IF c.k = "ref" THEN h[c.v[1]] ELSE c
      ps == << "name", "serialVersionUID", "flags", "isEnum", "fields", "annotations",
               "super" >>
      P(t, v) == [t |-> t, v |-> v]
      none == P("none", Undefined)
      Fixed(rest) == IF key = S_class THEN P("const", o.class)
                     ELSE IF key = S_extends
                     THEN P("const", [k |-> "map", v |-> o.extends, proto |-> o.extendsProto])
                     ELSE rest
  IN  CASE kind = "map" -> IF MapHas(c.v, key) THEN P("data", MapGet(c.v, key)) ELSE none
        [] kind = "desc" ->
             IF \E i \in 1..o.assigned : key = PropKey(ps[i])
             THEN P("data", o[ps[CHOOSE i \in 1..o.assigned : key = PropKey(ps[i])]])
             ELSE none
        [] kind = "obj" ->
             Fixed(IF MapHas(o.props, key) THEN P("data", MapGet(o.props, key)) ELSE none)
        [] kind = "arr" ->
             Fixed(IF key = PropKey("length") THEN P("data", Num(o.length))
                   ELSE IF HasIndex(Len(o.elems), key)
                   THEN P("data", o.elems[KeyIndex(key) + 1]) ELSE none)
        [] kind = "enum" ->
             Fixed(IF key = PropKey("length") THEN P("const", Num(Len(o.str)))
                   ELSE IF HasIndex(Len(o.str), key)
                   THEN P("const", Str(<<o.str[KeyIndex(key) + 1]>>)) ELSE none)
        [] kind = "list" ->
             IF key = PropKey("length") THEN P("data", Num(Len(c.v)))
             ELSE IF HasIndex(Len(c.v), key) THEN P("data", c.v[KeyIndex(key) + 1]) ELSE none
        [] kind \in { "block", "buf" } ->
             IF HasIndex(Len(Bytes(c)), key) THEN P("data", Num(Bytes(c)[KeyIndex(key) + 1]))
             ELSE none
        [] kind = "field" ->
             IF key = PropKey("type") THEN P("data", Str(c.type))
             ELSE IF key = PropKey("name") THEN P("data", Str(c.name))
             ELSE IF key = PropKey("className") /\ IsContentType(c.type)
             THEN P("data", c.className) ELSE none
        [] kind = "long" ->
             IF key = PropKey("low") THEN P("data", Num(Signed(SubSeq(c.v, 5, 8))))
             ELSE IF key = PropKey("high") THEN P("data", Num(Signed(SubSeq(c.v, 1, 4))))
             ELSE IF key = PropKey("unsigned") THEN P("data", Bool(FALSE)) ELSE none
        [] kind = "parser" ->
             Let(ParserProps, LAMBDA own :
               IF MapHas(own, key) THEN P("data", MapGet(own, key)) ELSE none)
        [] kind = "handles" ->
             IF key = PropKey("length")
             THEN P("data", Num(IF DOMAIN handles = {} THEN 0 ELSE nextHandle))
             ELSE IF IsArrayIndex(key) /\ Len(key) < 10 /\ KeyIndex(key) \in DOMAIN handles
             THEN P("data", handles[KeyIndex(key)]) ELSE none
        [] kind = "contents" ->
             IF key = PropKey("length") THEN P("data", Num(Len(contents)))
             ELSE IF HasIndex(Len(contents), key)
             THEN P("data", contents[KeyIndex(key) + 1]) ELSE none
        [] kind = "prototype" ->
             (CASE c = ObjectPrototype /\ key = S_proto -> P("accessor", Undefined)
                [] c = BufferPrototype /\ key \in BufferGetters -> P("getter", Undefined)
                [] c = BufferPrototype /\ key \notin BufferGetters
                     /\ MapHas(BufferPrototypeProps, key) ->
                     P("data", BufferMethod(key))
                [] c = LongPrototype /\ key = PropKey("__isLong__") -> P("const", Bool(TRUE))
                [] c = ArrayPrototype /\ key = PropKey("length") -> P("data", Num(0))
                [] c = StringPrototype /\ key = PropKey("length") -> P("const", Num(0))
                [] OTHER -> none)
        [] OTHER -> none

RECURSIVE Find(_, _, _)
\* The property key as c or the nearest of its prototypes has it.
Find(h, c, key) ==
  IF ~IsObject(c) THEN [t |-> "none", v |-> Undefined]
  ELSE Let(Own(h, c, key), LAMBDA d : IF d.t # "none" THEN d ELSE Find(h, ProtoOf(h, c), key))

RECURSIVE Chain(_, _)
\* The object c and its prototypes, nearest first.
Chain(h, c) == IF ~IsObject(c) THEN <<>> ELSE <<c>> \o Chain(h, ProtoOf(h, c))

\* Some object from c up its prototype chain satisfies Is.
OnChain(h, c, Is(_)) == \E i \in 1..Len(Chain(h, c)) : Is(Chain(h, c)[i])

\* The element at the array index named by key, of the n elements e.
AtIndex(n, e(_), key) == IF HasIndex(n, key) THEN e(KeyIndex(key) + 1) ELSE Undefined

\* x[key] for a value x that is neither null nor undefined: the property of x
\* or of the nearest prototype that has it.  The getter __proto__ gives the
\* prototype of x; a getter of a Buffer in the prototype chain of another
\* object throws.
Get(h, x, key) ==
  IF x.k = "string"
  THEN IF key = PropKey("length") THEN Num(Len(x.v))
       ELSE AtIndex(Len(x.v), LAMBDA i : Str(<<x.v[i]>>), key)
  ELSE IF ~IsObject(x) THEN Undefined
  ELSE Let(Find(h, x, key), LAMBDA d :
         CASE d.t \in { "data", "const" } -> d.v
           [] d.t = "accessor" -> ProtoOf(h, x)
           [] d.t = "getter" ->
                IF ~IsBuffer(x) THEN Thrown
                ELSE IF key \in { PropKey("length"), PropKey("byteLength") }
                THEN Num(Len(Bytes(x)))
                ELSE Undefined
           [] OTHER -> Undefined)

\* x.p for a value x that is neither null nor undefined.
Prop(h, x, p) == Get(h, x, PropKey(p))

\* What o[key] = val does to the object o in strict mode: "define" creates or
\* overwrites the own property, "proto" replaces the prototype (the setter
\* __proto__, reached through Object.prototype, given an object or null),
\* "none" changes nothing (the setter given another value; a canonical
\* numeric string, such as "7", "-1", "1.5" or "NaN", that is no index of the
\* Buffer in the chain), "throw" is a TypeError (a property
\* that is not writable or has no setter; a prototype chain made cyclic).
SetOp(h, o, key, val) ==
  Let(Find(h, o, key), LAMBDA d :
    CASE d.t \in { "const", "getter" } -> "throw"
      [] d.t = "accessor" ->
           IF ~(IsObject(val) \/ val = Null) \/ val = ProtoOf(h, o) THEN "none"
           ELSE IF o.k = "ref" /\ OnChain(h, val, LAMBDA c : c = o) THEN "throw"
           ELSE "proto"
      [] d.t = "none" /\ OnChain(h, ProtoOf(h, o), IsBuffer)
           /\ CanonicalNumeric(key) -> "none"
      [] OTHER -> "define")

\* o[key] = val on a plain object o: the object afterwards, or Thrown.
ObjSet(h, o, key, val) ==
  Let(SetOp(h, o, key, val), LAMBDA op :
    CASE op = "throw" -> Thrown
      [] op = "proto" -> [o EXCEPT !.proto = val]
      [] op = "define" -> [o EXCEPT !.v = MapSet(@, key, val)]
      [] OTHER -> o)

\* The own enumerable properties of a value, as for-in and Object.keys list
\* them.
OwnProps(h, x) ==
  LET Indexed(n, e(_)) == [i \in 1..n |-> << Digits(i - 1), e(i) >>]
      Assigned(o, ps) == [i \in 1..o.assigned |-> << PropKey(ps[i]), o[ps[i]] >>]
  IN  CASE x.k = "ref" ->
             LET o == h[x.v[1]]
             IN  (CASE o.kind = "desc" ->
                         Assigned(o, << "name", "serialVersionUID", "flags", "isEnum",
                                        "fields", "annotations", "super" >>)
                    [] o.kind = "obj" -> o.props
                    [] o.kind = "arr" -> Indexed(Len(o.elems), LAMBDA i : o.elems[i])
                    [] o.kind = "enum" -> Indexed(Len(o.str), LAMBDA i : Str(<<o.str[i]>>)))
        [] x.k = "map" -> x.v
        [] x.k = "list" -> Indexed(Len(x.v), LAMBDA i : x.v[i])
        [] IsBuffer(x) -> Indexed(Len(Bytes(x)), LAMBDA i : Num(Bytes(x)[i]))
        [] x.k = "parser" -> ParserProps
        [] x.k = "handles" ->
             [i \in 1..(nextHandle - BaseHandle) |->
                << Digits(BaseHandle + i - 1), handles[BaseHandle + i - 1] >>]
        [] x.k = "contents" -> Indexed(Len(contents), LAMBDA i : contents[i])
        [] x = BufferPrototype -> BufferPrototypeProps
        [] x.k = "field" ->
             << << PropKey("type"), Str(x.type) >>, << PropKey("name"), Str(x.name) >> >>
             \o (IF IsContentType(x.type) THEN << << PropKey("className"), x.className >> >>
                 ELSE <<>>)
        [] x.k = "long" ->
             << << PropKey("low"), Num(Signed(SubSeq(x.v, 5, 8))) >>,
                << PropKey("high"), Num(Signed(SubSeq(x.v, 1, 4))) >>,
                << PropKey("unsigned"), Bool(FALSE) >> >>
        [] OTHER -> <<>>

\* The own property names of an object that for-in does not list, and that
\* hide the same names further up the chain.
Unlisted(h, c) ==
  LET kind == KindOf(h, c)
  IN  (IF kind \in { "obj", "arr", "enum" } THEN { S_class, S_extends } ELSE {})
      \cup (IF kind \in { "arr", "enum", "list", "handles", "contents" }
            THEN { PropKey("length") } ELSE {})

RECURSIVE ForInFrom(_, _, _)
\* The enumerable properties from c up the chain whose names are not hidden.
ForInFrom(h, c, hidden) ==
  IF ~IsObject(c) \/ (c.k = "prototype" /\ c # BufferPrototype) THEN <<>>
  ELSE IF c = BufferPrototype
  THEN SelectSeq(OwnProps(h, c), LAMBDA kv : kv[1] \notin hidden)
  ELSE Let(OwnProps(h, c), LAMBDA own :
         SelectSeq(own, LAMBDA kv : kv[1] \notin hidden)
         \o ForInFrom(h, ProtoOf(h, c),
                      hidden \cup { own[i][1] : i \in 1..Len(own) } \cup Unlisted(h, c)))

\* The names for (const name in x) visits, each with x[name]: the own
\* enumerable properties of x, then those of its prototypes that no earlier
\* name hides.  The methods the library puts on Long.prototype are not
\* listed.
ForInAll(h, x) ==
  Let(ForInFrom(h, x, {}), LAMBDA l :
    <<>> \o [i \in 1..Len(l) |-> << l[i][1], Get(h, x, l[i][1]) >>])

\* The rounds of for (const name in x) that read x[name]: all of them, or
\* those before the first whose read throws.
ForIn(h, x) ==
  Let(ForInAll(h, x), LAMBDA l :
    SubSeq(l, 1, Cardinality({ i \in 1..Len(l) : \A j \in 1..i : l[j][2] # Thrown })))

\* The loop for (const name in x) x[name] ends in a TypeError: it reaches a
\* name whose read throws, which the getters parent and offset of
\* Buffer.prototype do on an object that merely inherits from a Buffer, when
\* no property of an object before Buffer.prototype on the chain hides them.
ForInThrows(h, x) ==
  Let(ForInAll(h, x), LAMBDA l : \E i \in 1..Len(l) : l[i][2] = Thrown)

\* JavaScript truthiness: false, 0, -0, NaN, "", null and undefined are falsy.
Truthy(x) ==
  CASE Nullish(x) -> FALSE
    [] x.k = "string" -> x.v # <<>>
    [] x.k = "number" -> x.v[1] # 0
    [] x.k = "boolean" -> x.v[1] = 1
    [] x.k \in { "double", "float" } -> Ieee(x.v).kind \in { "finite", "inf" }
    [] OTHER -> TRUE

\* What a conversion yields when it throws a TypeError.
Throws == <<-1>>

\* The greatest length of a string (String::kMaxLength of the engine).
StringMax == (2 ^ 29) - 24

\* What a conversion yields when the string it makes would be longer than
\* StringMax: the engine throws a RangeError.
TooLong == <<-2>>

\* The conversion threw.
Failed(s) == s \in { Throws, TooLong }

\* What a property write yields when the conversion of its key made too long
\* a string.
ThrownLong == [k |-> "throws", v |-> TooLong]

\* The failure a thrown value x carries.
FailureOf(x) == IF x = ThrownLong THEN TooLong ELSE Throws

\* The text of the strings a and b put together, b after a (a template
\* literal, or +): the first failure of the two, or TooLong.
Joined(a, b) ==
  IF Failed(a) THEN a ELSE IF Failed(b) THEN b
  ELSE IF Len(a) + Len(b) > StringMax THEN TooLong ELSE a \o b

\* ToInt32(n) & 0x0f
And15(n) ==
  LET mag == BitsNat(SubSeq(n.int, IF Len(n.int) > 4 THEN Len(n.int) - 3 ELSE 1, Len(n.int)))
  IN  IF n.kind # "finite" THEN 0
      ELSE IF n.sign = 1 THEN (16 - mag) % 16 ELSE mag

\* i < n for an index i
Below(i, n) ==
  LET z == CHOOSE j \in 0..Len(n.int) :
             (j = Len(n.int) \/ n.int[j + 1] = 1) /\ \A q \in 1..j : n.int[q] = 0
      bits == SubSeq(n.int, z + 1, Len(n.int))
  IN  CASE n.kind = "inf" -> n.sign = 0
        [] n.kind = "finite" ->
             /\ n.sign = 0
             /\ \/ Len(bits) > 30
                \/ Len(bits) <= 30 /\ (BitsNat(bits) > i \/ (BitsNat(bits) = i /\ n.frac))
        [] OTHER -> FALSE

\* The big-endian bytes of a 32-bit integer.
Int32Bytes(n) == [i \in 1..4 |-> (n \div (256 ^ (4 - i))) % 256]

RECURSIVE ToStringIn(_, _, _)
RECURSIVE ToStringBy(_, _, _, _)
RECURSIVE ToNumberIn(_, _, _)

\* ToLength(n) as bits without leading zeros, for a length that is compared
\* with 2^32 - 1.
LengthBits(n) ==
  CASE n.kind = "inf" /\ n.sign = 0 -> <<1>> \o Zeros(52)
    [] n.kind = "finite" /\ n.sign = 0 ->
         Let(CHOOSE j \in 0..Len(n.int) :
               (j = Len(n.int) \/ n.int[j + 1] = 1) /\ \A q \in 1..j : n.int[q] = 0,
             LAMBDA z : SubSeq(n.int, z + 1, Len(n.int)))
    [] OTHER -> <<>>

\* The length of a join, its bits b: -1 for one beyond 2^32 - 1, which
\* Array.prototype.join refuses with a TypeError, and 2^30 for one of 2^30 or
\* more, which is more separators than a string holds.
JoinLength(b) ==
  IF Len(b) > 32 THEN -1 ELSE IF Len(b) > 30 THEN 2 ^ 30 ELSE BitsNat(b)

\* The array index key is below the length whose bits are b.
KeyBelow(key, b) ==
  IF Len(key) < 10 THEN Len(b) > 30 \/ KeyIndex(key) < BitsNat(b)
  ELSE IndexBefore(DecToBits([i \in 1..Len(key) |-> key[i] - 48]), b)

\* The number of an array index, 2^30 for one of 10^9 or more.
IndexNat(key) == IF Len(key) < 10 THEN KeyIndex(key) ELSE 2 ^ 30

\* The array indices below the length of bits b that x or one of its
\* prototypes has, in ascending order: all others read as undefined.
JoinIndices(h, x, b) ==
  LET chain == Chain(h, x)
      Keys(c) == Let(OwnProps(h, c), LAMBDA own :
                   SelectSeq([i \in 1..Len(own) |-> own[i][1]],
                             LAMBDA key : IsArrayIndex(key) /\ KeyBelow(key, b)))
      RECURSIVE All(_)
      All(i) == IF i > Len(chain) THEN <<>> ELSE Keys(chain[i]) \o All(i + 1)
  IN  Let(SortSeq(All(1), IndexBefore), LAMBDA keys :
        Let(SelectSeq([i \in 1..Len(keys) |-> << i, keys[i] >>],
                      LAMBDA p : p[1] = 1 \/ keys[p[1] - 1] # p[2]),
            LAMBDA ps : <<>> \o [i \in 1..Len(ps) |-> ps[i][2]]))

RECURSIVE JoinScan(_, _, _, _, _)
\* The elements i..j of a join in their order, texts their strings, at their
\* indices, after elements whose strings have sum characters: the failure of
\* the first element whose conversion throws or whose string, with the
\* separators before it, makes the result longer than StringMax, else the
\* characters of the strings up to j.  Empty strings are passed over.
JoinScan(texts, at, i, j, sum) ==
  IF i > j THEN [err |-> <<>>, sum |-> sum]
  ELSE IF i = j
  THEN LET t == texts[i]
       IN  IF Failed(t) THEN [err |-> t, sum |-> sum]
           ELSE IF t # <<>> /\ at[i] + sum + Len(t) > StringMax
           THEN [err |-> TooLong, sum |-> sum]
           ELSE [err |-> <<>>, sum |-> sum + Len(t)]
  ELSE Let(JoinScan(texts, at, i, (i + j) \div 2, sum), LAMBDA l :
         IF l.err # <<>> THEN l ELSE JoinScan(texts, at, ((i + j) \div 2) + 1, j, l.sum))

RECURSIVE JoinText(_, _, _, _)
\* The strings of the elements i..j of a join, each after the commas that
\* separate it from the element before.
JoinText(texts, at, i, j) ==
  IF i > j THEN <<>>
  ELSE IF i = j
  THEN [q \in 1..(at[i] - (IF i = 1 THEN 0 ELSE at[i - 1])) |-> 44] \o texts[i]
  ELSE Let(<< JoinText(texts, at, i, (i + j) \div 2),
              JoinText(texts, at, ((i + j) \div 2) + 1, j) >>, LAMBDA p : p[1] \o p[2])

\* Array.prototype.join on x over the length n > 0: the elements at the
\* indices keys are converted in order, null and undefined give the empty
\* text, and a comma separates each index from the next.
JoinOf(h, x, n, keys, seen) ==
  LET m == Len(keys)
      at == <<>> \o [i \in 1..m |-> IndexNat(keys[i])]
  IN  Let(<<>> \o [i \in 1..m |->
                     Let(Get(h, x, keys[i]), LAMBDA e :
                       IF Nullish(e) THEN <<>> ELSE ToStringIn(h, e, seen))],
          LAMBDA texts :
            Let(JoinScan(texts, at, 1, m, 0), LAMBDA r :
              IF r.err # <<>> THEN r.err
              ELSE IF (n - 1) + r.sum > StringMax THEN TooLong
              ELSE JoinText(texts, at, 1, m)
                   \o [q \in 1..((n - 1) - (IF m = 0 THEN 0 ELSE at[m])) |-> 44]))

\* Array.prototype.toString on x: join when x.join is the method, else
\* Object.prototype.toString.  join converts x.length first, throws a
\* TypeError for a length beyond 2^32 - 1, and gives "" for no elements and
\* for an array that is being joined already.
ArrayToString(h, x, seen) ==
  IF Find(h, x, PropKey("join")).t # "none" THEN S_object
  ELSE Let(ToNumberIn(h, Get(h, x, PropKey("length")), seen), LAMBDA n :
         IF n.kind = "throws" THEN n.int
         ELSE Let(LengthBits(n), LAMBDA b :
                IF JoinLength(b) < 0 THEN Throws
                ELSE IF JoinLength(b) = 0 \/ x \in seen THEN <<>>
                ELSE JoinOf(h, x, JoinLength(b), JoinIndices(h, x, b),
                            IF x.k \in { "ref", "handles", "contents" } THEN seen \cup { x }
                            ELSE seen)))

\* Long.prototype.toString on x, which reads x.low, x.high and x.unsigned.
LongToString(h, x) ==
  Let(<< Prop(h, x, "high"), Prop(h, x, "low"), Prop(h, x, "unsigned") >>, LAMBDA p :
    IF p[1].k = "number" /\ p[2].k = "number" /\ p[3] = Bool(FALSE)
    THEN LongToStr(Int32Bytes(p[1].v[1]) \o Int32Bytes(p[2].v[1]))
    ELSE Throws)

\* x.toString() by the method the object c or one of its prototypes gives x:
\* an own property toString is data and no method, and a chain that ends
\* before Object.prototype has none; Array.prototype.toString joins x, the
\* methods of String.prototype and Buffer.prototype accept only their own
\* kind, Object.prototype.toString gives "[object Object]".
ToStringBy(h, x, c, seen) ==
  IF ~IsObject(c) \/ Own(h, c, S_toString).t # "none" THEN Throws
  ELSE LET kind == KindOf(h, c)
       IN  CASE kind \in { "map", "obj" } -> ToStringBy(h, x, ProtoOf(h, c), seen)
             [] kind \in { "arr", "list", "handles", "contents" } -> ArrayToString(h, x, seen)
             [] kind = "enum" -> IF c = x THEN h[c.v[1]].str ELSE Throws
             [] kind \in { "block", "buf" } -> IF c = x THEN Utf8(Bytes(c)) ELSE Throws
             [] kind = "long" -> LongToString(h, x)
             [] OTHER -> S_object

\* String(x): seen holds the objects being joined (a cycle joins as "").  An
\* object is converted by its toString method.
ToStringIn(h, x, seen) ==
  CASE x.k = "string" -> x.v
    [] x.k = "null" -> S_null
    [] x.k = "undefined" -> S_undefined
    [] x.k = "number" -> IntToStr(x.v[1])
    [] x.k = "boolean" -> IF x.v[1] = 1 THEN S_true ELSE S_false
    [] x.k \in { "double", "float" } -> DoubleToStr(x.v)
    [] x.k = "throws" -> FailureOf(x)
    [] OTHER -> ToStringBy(h, x, x, seen)

\* ToNumber(x): an object converts by way of its string.
ToNumberIn(h, x, seen) ==
  LET OfInt(n) == Number("finite", IF n < 0 THEN 1 ELSE 0,
                       NatBits(IF n < 0 THEN 0 - n ELSE n), FALSE)
  IN  CASE x.k = "number" -> OfInt(x.v[1])
        [] x.k = "boolean" -> OfInt(x.v[1])
        [] x.k = "null" -> OfInt(0)
        [] x.k = "undefined" -> NaN
        [] x.k \in { "double", "float" } -> DoubleToNumber(x.v)
        [] OTHER ->
             Let(ToStringIn(h, x, seen), LAMBDA s :
               IF Failed(s) THEN Number("throws", 0, s, FALSE) ELSE StringToNumber(s))

\* String(x), or Throws
JsString(h, x) == ToStringIn(h, x, {})

\* The text of a value that has the method charAt, a string or a String
\* object, or Throws.
StringOf(h, x) ==
  IF x.k = "string" THEN x.v
  ELSE IF x.k = "ref" /\ h[x.v[1]].kind = "enum" THEN h[x.v[1]].str
  ELSE Throws

\* classDesc.name.charAt(1)
CharAt1(s) == IF Len(s) >= 2 THEN <<s[2]>> ELSE <<>>

ToNumber(h, x) == ToNumberIn(h, x, {})

\* cls.flags & 0x0f, or, when the conversion of cls.flags throws, -1 for a
\* TypeError and -2 for a RangeError
FlagsMode(f) ==
  Let(ToNumber(heap, f), LAMBDA n :
    IF n.kind = "throws" THEN n.int[1] ELSE And15(n))

\* ----------------------------------------------------------- control flow

E_Premature == "Premature end of input"
E_Magic == "STREAM_MAGIC not found"
E_Version == "Only understand protocol version 5"
E_UnknownTag == "Don't know about type"
E_NotAllowed == "not allowed here"
E_NoHandler == "Don't know how to handle"
E_LongUtf == "Can't handle more than 2^32 bytes in a string"
E_External == "Can't parse version 1 external content"
E_Flags == "Don't know how to deserialize class with flags"
E_FieldType == "Don't know how to read field of type"
E_TypeError == "TypeError"
E_RangeError == "RangeError: Invalid array length"
E_StackOverflow == "RangeError: Maximum call stack size exceeded"
E_StringLength == "RangeError: Invalid string length"

\* The error of a conversion that failed.
ErrorOf(s) == IF s = TooLong THEN E_StringLength ELSE E_TypeError


In(f, s) == pc = "run" /\ stack # <<>> /\ Top.fn = f /\ Top.st = s

\* throw: the error leaves the constructor.
Throw(msg) == pc' = "failed" /\ err' = msg /\ stack' = <<>> /\ ret' = ret

\* return v to the caller
Return(v) == stack' = Rest /\ ret' = v /\ UNCHANGED << pc, err >>

\* carry on in this activation as frame f
Goto(f) == stack' = Append(Rest, f) /\ UNCHANGED << ret, pc, err >>

\* carry on as frame f once the callee c has returned
Call(f, c) == stack' = Rest \o << f, c >> /\ UNCHANGED << ret, pc, err >>

ContentFrame(restricted, allowed) ==
  [fn |-> "content", st |-> "start", restricted |-> restricted, allowed |-> allowed]

\* this.content()
AnyContent == ContentFrame(FALSE, {})

\* A faulty classDesc: content() is called with no allow-list.
classDescAnyTag == ContentFrame(FALSE, {})

\* this.classDesc()
classDesc == ContentFrame(TRUE, ClassDescAllowed)

Did(op, h, v) == last' = [op |-> op, h |-> h, v |-> v]

\* --------------------------------------------------------- the constructor

Init ==
  /\ fam \in 1..Len(Families)
  /\ len = -1
  /\ avail = 0
  /\ buf = <<>>
  /\ pos = 0
  /\ nextHandle = BaseHandle
  /\ handles = <<>>
  /\ contents = <<>>
  /\ heap = <<>>
  /\ stack = <<>>
  /\ ret = Undefined
  /\ pc = "magic"
  /\ err = ""
  /\ calls = 0
  /\ classDataParsers = <<>>
  /\ classPostProcessors = <<>>
  /\ hlog = <<>>
  /\ clog = <<>>
  /\ plog = <<>>
  /\ last = [op |-> "new", h |-> 0, v |-> Undefined]

\* ------------------------------------------------------------ registration

\* The functions callers register.  As class-data parsers: cls => ({}), and
\* cls => ({ c: cls }).  As post-processors: (cls, res, data) => res, and
\* (cls, res, data) => ({ c: cls, r: res, d: data }).
F_empty == <<101, 109, 112, 116, 121>>
F_of == <<111, 102>>
F_same == <<115, 97, 109, 101>>
F_pack == <<112, 97, 99, 107>>
S_c == <<99>>
S_r == <<114>>
S_d == <<100>>

Fn(name) == [k |-> "function", v |-> name]

ClassDataParserFns == { F_empty, F_of }
PostProcessorFns == { F_same, F_pack }

\* parser.call(this, cls)
ApplyParser(fn, cls) == IF fn = Fn(F_of) THEN Map(<< <<S_c, cls>> >>) ELSE Map(<<>>)

\* postProcessor.call(this, cls, res, data)
ApplyPost(fn, cls, res, data) ==
  IF fn = Fn(F_pack) THEN Map(<< <<S_c, cls>>, <<S_r, res>>, <<S_d, data>> >>) ELSE res

\* assert.strictEqual(serialVersionUID.length, 16, ...)
UidAccepted(uid) == Len(uid) = 16

\* registry[`${className}@${serialVersionUID}`] = parser, after the assertion
Registered(reg, c, fn) ==
  IF UidAccepted(c.uid) THEN MapSet(reg, c.name \o S_at \o c.uid, Fn(fn)) ELSE reg

\* Registrations are made before the parse, on the registries of the module.
BeforeParse ==
  /\ pc = "magic" /\ pos = 0 /\ buf = <<>>
  /\ Len(classDataParsers) + Len(classPostProcessors) < MaxRegs

\* The outcome of a registration: 1 when it returned, 0 when it threw.
Outcome(c) == IF UidAccepted(c.uid) THEN 1 ELSE 0

\* Parser.registerClassDataParser(className, serialVersionUID, parser)
RegisterClassDataParser ==
  /\ BeforeParse
  /\ \E c \in Families[fam].regs, fn \in ClassDataParserFns :
       /\ classDataParsers' = Registered(classDataParsers, c, fn)
       /\ Did("registerClassDataParser", Outcome(c), Str(c.uid))
  /\ NoHandle /\ NoRead
  /\ UNCHANGED << contents, heap, stack, ret, pc, err, calls, fam, classPostProcessors,
                  clog, plog >>

\* Parser.registerPostProcessor(className, serialVersionUID, parser), under
\* the name op
PostProcessorRegistration(op) ==
  /\ BeforeParse
  /\ \E c \in Families[fam].regs, fn \in PostProcessorFns :
       /\ classPostProcessors' = Registered(classPostProcessors, c, fn)
       /\ Did(op, Outcome(c), Str(c.uid))
  /\ NoHandle /\ NoRead
  /\ UNCHANGED << contents, heap, stack, ret, pc, err, calls, fam, classDataParsers,
                  clog, plog >>

RegisterPostProcessor == PostProcessorRegistration("registerPostProcessor")

\* Parser.register = Parser.registerPostProcessor
Register == PostProcessorRegistration("register")

\* A faulty magic(): the word is read and not compared.
MagicUnchecked ==
  /\ pc = "magic"
  /\ \E w \in MagicWords :
       \E r \in Reads(<<w>>) :
           /\ Cursor(r)
           /\ IF ~r.ok THEN Throw(E_Premature)
              ELSE pc' = "version" /\ UNCHANGED << err, stack, ret >>
  /\ Did("magic", 0, Undefined)
  /\ NoHandle
  /\ UNCHANGED << contents, heap, calls, registry, clog, plog >>

\* magic()
Magic ==
  /\ pc = "magic"
  /\ \E w \in MagicWords :
       \E r \in Reads(<<w>>) :
           /\ Cursor(r)
           /\ IF ~r.ok THEN Throw(E_Premature)
              ELSE IF BE(w) # StreamMagic THEN Throw(E_Magic)
              ELSE pc' = "version" /\ UNCHANGED << err, stack, ret >>
  /\ Did("magic", 0, Undefined)
  /\ NoHandle
  /\ UNCHANGED << contents, heap, calls, registry, clog, plog >>

\* version()
Version ==
  /\ pc = "version"
  /\ \E w \in VersionWords :
       \E r \in Reads(<<w>>) :
           /\ Cursor(r)
           /\ IF ~r.ok THEN Throw(E_Premature)
              ELSE IF BE(w) # StreamVersion THEN Throw(E_Version)
              ELSE pc' = "loop" /\ UNCHANGED << err, stack, ret >>
  /\ Did("version", 0, Undefined)
  /\ NoHandle
  /\ UNCHANGED << contents, heap, calls, registry, clog, plog >>

\* while (this.pos < this.buf.length): the test, and the call of content().
\* The buffers drawn hold at most CallBudget tag bytes: after the last one
\* the buffer has ended.
Loop ==
  /\ pc = "loop"
  /\ \E L \in Lens :
       LET know == Learn(L, pos + 1)
       IN  /\ calls < CallBudget \/ L <= pos
           /\ len' = know.len /\ avail' = know.avail
           /\ IF pos < L
              THEN pc' = "run" /\ stack' = << AnyContent >>
              ELSE pc' = "done" /\ stack' = stack
  /\ Did("loop", 0, Undefined)
  /\ NoHandle
  /\ UNCHANGED << buf, pos, contents, heap, ret, err, calls, registry, clog, plog >>

\* this.contents.push(<what content() returned>)
Push ==
  /\ pc = "run" /\ stack = <<>>
  /\ contents' = Append(contents, ret)
  /\ pc' = "loop"
  /\ Did("push", 0, ret)
  /\ NoHandle
  /\ NoRead /\ UNCHANGED << heap, stack, ret, err, calls, registry, clog, plog >>

\* content(allowed): the tag byte and the three checks, then the handler.
\* The buffers drawn hold at most CallBudget tag bytes: where a further one
\* is asked for, the buffer has ended.
Content ==
  /\ In("content", "start")
  /\ \E b \in (IF calls < CallBudget THEN TagBytes ELSE { 0 }) :
     \E r \in Reads(<< <<b>> >>) :
       LET tc == b - TagBase
           name == IF tc \in 0..(Len(names) - 1) THEN names[tc + 1] ELSE "undefined"
       IN  /\ calls < CallBudget \/ ~r.ok
           /\ Cursor(r)
           /\ Did("content", b, Undefined)
           /\ IF ~r.ok THEN Throw(E_Premature)
              ELSE IF tc < 0 \/ tc > Len(names) THEN Throw(E_UnknownTag)
              ELSE IF Top.restricted /\ name \notin Top.allowed THEN Throw(E_NotAllowed)
              ELSE IF name \notin HandlerNames THEN Throw(E_NoHandler)
              ELSE Goto([fn |-> name, st |-> "start"])
  /\ calls' = calls + 1
  /\ NoHandle
  /\ UNCHANGED << contents, heap, registry, clog, plog >>

\* ------------------------------------------------------- the type handlers

\* typeHandlers.Null
HNull ==
  /\ In("Null", "start")
  /\ Return(Null)
  /\ Did("Null", 0, Null)
  /\ NoHandle
  /\ NoRead /\ UNCHANGED << contents, heap, calls, registry, clog, plog >>

\* typeHandlers.Reference
HReference ==
  /\ In("Reference", "start")
  /\ \E w \in RefWords :
     \E r \in Reads(<<w>>) :
       LET h == Signed(w)
       IN  /\ Cursor(r)
           /\ IF ~r.ok
              THEN Throw(E_Premature) /\ Did("Reference", h, Undefined)
              ELSE Return(HandleGet(h)) /\ Did("Reference", h, HandleGet(h))
  /\ NoHandle
  /\ UNCHANGED << contents, heap, calls, registry, clog, plog >>

\* typeHandlers.String: newHandle(utf())
HString ==
  /\ In("String", "start")
  /\ \E s \in StringTexts :
       \E r \in Reads(<< U16(Len(s)), s >>) :
           /\ Cursor(r)
           /\ IF ~r.ok
              THEN Throw(E_Premature) /\ NoHandle /\ Did("String", 0, Undefined)
              ELSE /\ newHandle(Str(Utf8(s)))
                   /\ Return(Str(Utf8(s)))
                   /\ Did("String", nextHandle, Str(Utf8(s)))
  /\ UNCHANGED << contents, heap, calls, registry, clog, plog >>

\* typeHandlers.LongString: newHandle(utfLong())
HLongString ==
  /\ In("LongString", "start")
  /\ \E hi \in HighWords, s \in StringTexts :
     \E r \in Reads(IF BE(hi) # 0 THEN <<hi>> ELSE << hi, U32(Len(s)), s >>) :
           /\ Cursor(r)
           /\ IF ~r.ok
              THEN Throw(E_Premature) /\ NoHandle /\ Did("LongString", 0, Undefined)
              ELSE IF BE(hi) # 0
              THEN Throw(E_LongUtf) /\ NoHandle /\ Did("LongString", 0, Undefined)
              ELSE /\ newHandle(Str(Utf8(s)))
                   /\ Return(Str(Utf8(s)))
                   /\ Did("LongString", nextHandle, Str(Utf8(s)))
  /\ UNCHANGED << contents, heap, calls, registry, clog, plog >>

\* b.slice(start, end) for 0 <= start <= end: both are clamped to the
\* buffer's length.
Slice(b, start, end) ==
  SubSeq(b, (IF start > Len(b) THEN Len(b) ELSE start) + 1, IF end > Len(b) THEN Len(b) ELSE end)

\* The n bytes after position p in a buffer of length L, as far as they
\* exist, each of them c.
Payload(p, n, L, c) ==
  [i \in 1..(IF p + n <= L THEN n ELSE IF p >= L THEN 0 ELSE L - p) |-> c]

\* A faulty block read: the cursor moves back by the length read.
BlockReadBackward(lenBytes, op) ==
  \E r \in Reads(<<lenBytes>>) :
    LET n == BE(lenBytes)
    IN  IF ~r.ok
        THEN /\ Cursor(r)
             /\ Throw(E_Premature) /\ Did(op, n, Undefined)
        ELSE \E L \in (IF r.len >= 0 THEN {r.len} ELSE r.avail..MaxLen), c \in BlockBytes :
               LET all == r.buf \o Payload(r.pos, n, L, c)
                   res == Slice(all, r.pos, r.pos + n)
                   need == r.pos + n
               IN  /\ buf' = all
                   /\ pos' = r.pos - n
                   /\ IF r.len >= 0 THEN len' = r.len /\ avail' = r.avail
                      ELSE IF L >= need THEN len' = -1 /\ avail' = need
                      ELSE len' = L /\ avail' = L
                   /\ Return([k |-> "block", v |-> res])
                   /\ Did(op, n, [k |-> "block", v |-> res])

\* typeHandlers.BlockData / typeHandlers.BlockDataLong: the length (1 or 4
\* bytes), then the slice and this.pos += len, with no step().
BlockRead(lenBytes, op) ==
  \E r \in Reads(<<lenBytes>>) :
    LET n == BE(lenBytes)
    IN  IF ~r.ok
        THEN /\ Cursor(r)
             /\ Throw(E_Premature) /\ Did(op, n, Undefined)
        ELSE \E L \in (IF r.len >= 0 THEN {r.len} ELSE r.avail..MaxLen), c \in BlockBytes :
               LET all == r.buf \o Payload(r.pos, n, L, c)
                   res == Slice(all, r.pos, r.pos + n)
                   need == r.pos + n
               IN  /\ buf' = all
                   /\ pos' = r.pos + n
                   /\ IF r.len >= 0 THEN len' = r.len /\ avail' = r.avail
                      ELSE IF L >= need THEN len' = -1 /\ avail' = need
                      ELSE len' = L /\ avail' = L
                   /\ Return([k |-> "block", v |-> res])
                   /\ Did(op, n, [k |-> "block", v |-> res])

HBlockData ==
  /\ In("BlockData", "start")
  /\ \E n \in 0..MaxBlock : BlockRead(<<n>>, "BlockData")
  /\ NoHandle
  /\ UNCHANGED << contents, heap, calls, registry, clog, plog >>

HBlockDataLong ==
  /\ In("BlockDataLong", "start")
  /\ \E n \in 0..MaxBlock : BlockRead(U32(n), "BlockDataLong")
  /\ NoHandle
  /\ UNCHANGED << contents, heap, calls, registry, clog, plog >>

\* typeHandlers.EndBlockData
HEndBlockData ==
  /\ In("EndBlockData", "start")
  /\ Return(endBlock)
  /\ Did("EndBlockData", 0, endBlock)
  /\ NoHandle
  /\ NoRead /\ UNCHANGED << contents, heap, calls, registry, clog, plog >>

\* ---- class descriptors

Desc(name, uid) ==
  [ kind |-> "desc", name |-> name, serialVersionUID |-> uid, flags |-> Undefined,
    isEnum |-> Undefined, fields |-> Undefined, annotations |-> Undefined,
    super |-> Undefined, assigned |-> 0 ]

\* this.annotations(): the activation, and its first call of content()
CallAnnotations(f) ==
  /\ stack' = Rest \o << f, [fn |-> "annotations", st |-> "item", list |-> <<>>], AnyContent >>
  /\ UNCHANGED << ret, pc, err >>

\* the next step of the ClassDesc handler once i fields are read: fieldDesc()
\* for field i, or annotations() after the last one
ClassDescNext(id, count, i) ==
  IF i < count
  THEN Call([fn |-> "ClassDesc", st |-> "field", res |-> id, count |-> count, i |-> i],
            [fn |-> "fieldDesc", st |-> "start"])
  ELSE CallAnnotations([fn |-> "ClassDesc", st |-> "annotations", res |-> id])

\* typeHandlers.ClassDesc, up to the field loop: name, serialVersionUID,
\* newHandle(res), flags, isEnum, the field count
HClassDesc ==
  /\ In("ClassDesc", "start")
  /\ \E nm \in ClassNames, uid \in Uids, fl \in FlagBytes, count \in FieldCounts :
     \E r \in Reads(<< U16(Len(nm)), nm, uid, <<fl>>, U16(count) >>) :
       LET id == Len(heap) + 1
           d0 == Desc(IF r.n >= 2 THEN Str(Utf8(nm)) ELSE Undefined,
                      IF r.n >= 3 THEN Str(Hex(uid)) ELSE Undefined)
           d1 == IF r.n >= 4
                 THEN [d0 EXCEPT !.flags = Num(fl), !.isEnum = Bool((fl \div 16) % 2 = 1)]
                 ELSE d0
           d2 == IF r.n >= 5 THEN [d1 EXCEPT !.fields = List(<<>>)] ELSE d1
           d3 == [d2 EXCEPT !.assigned = CASE r.n >= 5 -> 5 [] r.n = 4 -> 4 [] r.n = 3 -> 2
                                           [] r.n = 2 -> 1 [] OTHER -> 0]
       IN  /\ Cursor(r)
           /\ heap' = Append(heap, d3)
           /\ IF r.n >= 3 THEN newHandle(Ref(id)) ELSE NoHandle
           /\ Did("ClassDesc", nextHandle, Ref(id))
           /\ IF ~r.ok THEN Throw(E_Premature) ELSE ClassDescNext(id, count, 0)
  /\ UNCHANGED << contents, calls, registry, clog, plog >>

\* res.fields.push(<what fieldDesc() returned>), and the loop's next round
HClassDescField ==
  /\ In("ClassDesc", "field")
  /\ LET id == Top.res
     IN  /\ heap' = [heap EXCEPT ![id].fields = List(Append(@.v, ret))]
         /\ ClassDescNext(id, Top.count, Top.i + 1)
         /\ Did("ClassDesc.field", 0, Ref(id))
  /\ NoHandle
  /\ NoRead /\ UNCHANGED << contents, calls, registry, clog, plog >>

\* res.annotations = <what annotations() returned>; then this.classDesc()
HClassDescAnnotations ==
  /\ In("ClassDesc", "annotations")
  /\ heap' = [heap EXCEPT ![Top.res].annotations = ret, ![Top.res].assigned = 6]
  /\ Call([fn |-> "ClassDesc", st |-> "super", res |-> Top.res], classDesc)
  /\ Did("ClassDesc.annotations", 0, Ref(Top.res))
  /\ NoHandle
  /\ NoRead /\ UNCHANGED << contents, calls, registry, clog, plog >>

\* res.super = <what classDesc() returned>; return res
HClassDescSuper ==
  /\ In("ClassDesc", "super")
  /\ heap' = [heap EXCEPT ![Top.res].super = ret, ![Top.res].assigned = 7]
  /\ Return(Ref(Top.res))
  /\ Did("ClassDesc.super", 0, Ref(Top.res))
  /\ NoHandle
  /\ NoRead /\ UNCHANGED << contents, calls, registry, clog, plog >>

Field(type, name, className) ==
  [k |-> "field", v |-> <<>>, type |-> type, name |-> name, className |-> className]

\* fieldDesc(): the type code and the name; content() for the codes [ and L
FieldDesc ==
  /\ In("fieldDesc", "start")
  /\ \E t \in TypeBytes, nm \in FieldNames :
     \E r \in Reads(<< <<t>>, U16(Len(nm)), nm >>) :
       LET f == Field(<<t>>, Utf8(nm), Undefined)
       IN  /\ Cursor(r)
           /\ Did("fieldDesc", t, Undefined)
           /\ IF ~r.ok THEN Throw(E_Premature)
              ELSE IF IsContentType(<<t>>)
              THEN Call([fn |-> "fieldDesc", st |-> "className", res |-> f], AnyContent)
              ELSE Return(f)
  /\ NoHandle
  /\ UNCHANGED << contents, heap, calls, registry, clog, plog >>

\* res.className = <what content() returned>; return res
FieldDescClassName ==
  /\ In("fieldDesc", "className")
  /\ Return([Top.res EXCEPT !.className = ret])
  /\ Did("fieldDesc.className", 0, ret)
  /\ NoHandle
  /\ NoRead /\ UNCHANGED << contents, heap, calls, registry, clog, plog >>

\* annotations(): one round of the loop, on what content() returned
Annotations ==
  /\ In("annotations", "item")
  /\ IF ret = endBlock
     THEN Return(List(Top.list))
     ELSE Call([Top EXCEPT !.list = Append(@, ret)], AnyContent)
  /\ Did("annotations", 0, ret)
  /\ NoHandle
  /\ NoRead /\ UNCHANGED << contents, heap, calls, registry, clog, plog >>

\* typeHandlers.Class: this.classDesc() ...
HClass ==
  /\ In("Class", "start")
  /\ Call([fn |-> "Class", st |-> "class"], classDesc)
  /\ Did("Class", 0, Undefined)
  /\ NoHandle
  /\ NoRead /\ UNCHANGED << contents, heap, calls, registry, clog, plog >>

\* ... and newHandle of what it returned
HClassHandle ==
  /\ In("Class", "class")
  /\ newHandle(ret)
  /\ Return(ret)
  /\ Did("Class.newHandle", nextHandle, ret)
  /\ NoRead /\ UNCHANGED << contents, heap, calls, registry, clog, plog >>

\* ---- objects and their class data

\* typeHandlers.Object: this.classDesc() ...
HObject ==
  /\ In("Object", "start")
  /\ Call([fn |-> "Object", st |-> "class"], classDesc)
  /\ Did("Object", 0, Undefined)
  /\ NoHandle
  /\ NoRead /\ UNCHANGED << contents, heap, calls, registry, clog, plog >>

RecursiveClassDataFrame(cls, obj, depth) ==
  [fn |-> "recursiveClassData", st |-> "start", cls |-> cls, obj |-> obj, depth |-> depth]

\* A faulty Object handler: the object is not given its handle before its
\* class data is read.
HObjectClassLate ==
  /\ In("Object", "class")
  /\ LET id == Len(heap) + 1
     IN  /\ heap' = Append(heap, [ kind |-> "obj", class |-> ret, extends |-> <<>>,
                                   extendsProto |-> ObjectPrototype, props |-> <<>>,
                                   proto |-> ObjectPrototype ])
         /\ Call([fn |-> "Object", st |-> "data", res |-> id], RecursiveClassDataFrame(ret, id, 1))
         /\ Did("Object.newHandle", nextHandle, Ref(id))
  /\ NoHandle
  /\ NoRead /\ UNCHANGED << contents, calls, registry, clog, plog >>

\* ... res = { class, extends: {} }; newHandle(res); recursiveClassData(res.class, res)
HObjectClass ==
  /\ In("Object", "class")
  /\ LET id == Len(heap) + 1
     IN  /\ heap' = Append(heap, [ kind |-> "obj", class |-> ret, extends |-> <<>>,
                                   extendsProto |-> ObjectPrototype, props |-> <<>>,
                                   proto |-> ObjectPrototype ])
         /\ newHandle(Ref(id))
         /\ Call([fn |-> "Object", st |-> "data", res |-> id], RecursiveClassDataFrame(ret, id, 1))
         /\ Did("Object.newHandle", nextHandle, Ref(id))
  /\ NoRead /\ UNCHANGED << contents, calls, registry, clog, plog >>

\* return res
HObjectData ==
  /\ In("Object", "data")
  /\ Return(Ref(Top.res))
  /\ Did("Object.return", 0, Ref(Top.res))
  /\ NoHandle
  /\ NoRead /\ UNCHANGED << contents, heap, calls, registry, clog, plog >>

ClassdataFrame(cls) ==
  [fn |-> "classdata", st |-> "start", cls |-> cls, cid |-> 0, post |-> Undefined]

RECURSIVE SuperEnds(_, _, _)
\* The chain cls, cls.super, cls.super.super, ... reaches a class with no
\* super class within n steps.  Each class of a chain that ends is another
\* object, so that a chain longer than the heap never ends.
SuperEnds(h, cls, n) ==
  \/ Nullish(cls)
  \/ ~Truthy(Prop(h, cls, "super"))
  \/ n > 0 /\ SuperEnds(h, Prop(h, cls, "super"), n - 1)

\* recursiveClassData(cls, obj): if (cls.super) recurse; else go on to
\* classdata.  Nothing in the parser ends the recursion on a chain of super
\* classes that never ends: each call makes the next, until the engine finds
\* its call stack exhausted and throws a RangeError, at a depth the language
\* leaves to it.  The callers beyond depth MaxWalk on such a chain, which are
\* never returned to, are not kept: the depth goes to and fro between
\* MaxWalk and MaxWalk + 1, and from MaxWalk on the stack may be exhausted.
RecursiveClassData ==
  /\ In("recursiveClassData", "start")
  /\ LET cls == Top.cls
     IN  IF Nullish(cls) THEN Throw(E_TypeError)
         ELSE IF Truthy(Prop(heap, cls, "super"))
         THEN IF Top.depth >= MaxWalk /\ ~SuperEnds(heap, cls, Len(heap) + 1)
              THEN \/ Throw(E_StackOverflow)
                   \/ Goto([Top EXCEPT !.cls = Prop(heap, cls, "super"),
                                       !.depth = IF Top.depth = MaxWalk THEN MaxWalk + 1
                                                 ELSE MaxWalk])
              ELSE Call([Top EXCEPT !.st = "own"],
                        RecursiveClassDataFrame(Prop(heap, cls, "super"), Top.obj, Top.depth + 1))
         ELSE Call([Top EXCEPT !.st = "copy"], ClassdataFrame(cls))
  /\ Did("recursiveClassData", Top.depth, Top.cls)
  /\ NoHandle
  /\ NoRead /\ UNCHANGED << contents, heap, calls, registry, clog, plog >>

\* after the super class's data: this.classdata(cls, obj)
RecursiveClassDataOwn ==
  /\ In("recursiveClassData", "own")
  /\ Call([Top EXCEPT !.st = "copy"], ClassdataFrame(Top.cls))
  /\ Did("recursiveClassData.own", Top.depth, Top.cls)
  /\ NoHandle
  /\ NoRead /\ UNCHANGED << contents, heap, calls, registry, clog, plog >>

RECURSIVE CopyProps(_, _, _, _)
\* for (const name in fields) obj[name] = fields[name], from entry i of the
\* names and values m on, obj the object id of the heap h: the heap
\* afterwards, and whether no assignment threw.  class and extends are
\* read-only properties of obj; the name __proto__ reaches the setter of
\* Object.prototype while the prototype chain of obj leads there.
CopyProps(h, id, m, i) ==
  IF i > Len(m) THEN [ok |-> TRUE, h |-> h]
  ELSE Let(SetOp(h, Ref(id), m[i][1], m[i][2]), LAMBDA op :
         CASE op = "throw" -> [ok |-> FALSE, h |-> h]
           [] op = "proto" -> CopyProps([h EXCEPT ![id].proto = m[i][2]], id, m, i + 1)
           [] op = "define" ->
                CopyProps([h EXCEPT ![id].props = MapSet(@, m[i][1], m[i][2])], id, m, i + 1)
           [] OTHER -> CopyProps(h, id, m, i + 1))

\* vals[key] = v: vals afterwards, or what was thrown
Stored(h, vals, key, v) ==
  IF key = Throws THEN Thrown ELSE IF key = TooLong THEN ThrownLong ELSE ObjSet(h, vals, key, v)

\* const fields = obj.extends[key] = <what classdata returned>; for (const
\* name in fields) obj[name] = fields[name], obj the object id of the heap h:
\* the heap afterwards, and whether nothing threw.
ClassDataCopied(h, id, key, fields) ==
  Let(Stored(h, [k |-> "map", v |-> h[id].extends, proto |-> h[id].extendsProto],
             key, fields), LAMBDA ext :
    IF ext.k = "throws" THEN [ok |-> FALSE, h |-> h, err |-> FailureOf(ext)]
    ELSE Let([h EXCEPT ![id].extends = ext.v, ![id].extendsProto = ext.proto], LAMBDA h1 :
           Let(CopyProps(h1, id, ForIn(h1, fields), 1), LAMBDA c :
             [ok |-> c.ok /\ ~ForInThrows(h1, fields), h |-> c.h, err |-> Throws])))

\* The end of recursiveClassData(): it returns, or the error goes on.
Copied(c) ==
  /\ heap' = c.h
  /\ IF c.ok THEN Return(Undefined) ELSE Throw(ErrorOf(c.err))

\* obj.extends[cls.name] = <what classdata returned>, and the copy onto obj
RecursiveClassDataCopy ==
  /\ In("recursiveClassData", "copy")
  /\ Copied(ClassDataCopied(heap, Top.obj, JsString(heap, Prop(heap, Top.cls, "name")), ret))
  /\ clog' = Append(clog, [ obj |-> Top.obj, cls |-> Top.cls, fields |-> ret,
                            entries |-> ForIn(heap, ret),
                            sup |-> Prop(heap, Top.cls, "super") ])
  /\ Did("recursiveClassData.copy", Top.depth, Top.cls)
  /\ NoHandle
  /\ NoRead /\ UNCHANGED << contents, calls, registry, plog >>

\* values(cls): const vals = {}; const fields = cls.fields; i = 0
ValuesFrame(cls) ==
  [ fn |-> "values", st |-> "loop", cls |-> cls, i |-> 0, vals |-> Map(<<>>),
    fields |-> Prop(heap, cls, "fields") ]

\* `${cls.name}@${cls.serialVersionUID}`
RegistryKey(h, cls) ==
  Let(Joined(JsString(h, Prop(h, cls, "name")), S_at), LAMBDA head :
    IF Failed(head) THEN head ELSE Joined(head, JsString(h, Prop(h, cls, "serialVersionUID"))))

\* A step of classdata() under mode 0x03, for the history.
Step(cid, step, cls, fn, res, data, out) ==
  [cid |-> cid, step |-> step, cls |-> cls, fn |-> fn, res |-> res, data |-> data, out |-> out]

\* The length of "Don't know how to deserialize class with flags 0x".
FlagsMessage == 49

\* cls.flags.toString(16) in the message of the default case, told by whether
\* it throws: null and undefined have no method, a Buffer that is not empty
\* takes the argument for the name of an encoding, an object answers with
\* the toString its chain finds, and the message is a string no longer than
\* StringMax.
FlagsHex(h, flags) ==
  IF Nullish(flags) \/ (IsBuffer(flags) /\ Bytes(flags) # <<>>) THEN Throws
  ELSE Let(JsString(h, flags), LAMBDA t :
         IF Failed(t) THEN t
         ELSE IF (IsObject(flags) \/ flags.k = "string") /\ FlagsMessage + Len(t) > StringMax
         THEN TooLong ELSE <<>>)

\* `${cls.name}@${cls.serialVersionUID}`, or the failure
ClassKey(h, cls) == IF Nullish(cls) THEN Throws ELSE RegistryKey(h, cls)

\* The frame of classdata() while the class-data parser runs.
ClassdataNext(cid, key) ==
  [Top EXCEPT !.st = "parsed", !.cid = cid, !.post = MapGet(classPostProcessors, key)]

\* case 0x03: classDataParser.call(this, cls)
ClassdataParse(cls, cid, key, parser) ==
  IF Truthy(parser)
  THEN /\ stack' = Append(Rest, ClassdataNext(cid, key))
       /\ ret' = ApplyParser(parser, cls)
       /\ UNCHANGED << pc, err >>
       /\ plog' = Append(plog, Step(cid, "parser", cls, parser,
                                   Undefined, Undefined, Undefined))
  ELSE /\ Call(ClassdataNext(cid, key), ValuesFrame(cls))
       /\ plog' = Append(plog, Step(cid, "values", cls, Undefined,
                                   Undefined, Undefined, Undefined))

\* The switch of classdata() on mode, cls.flags & 0x0f.
ClassdataSwitch(cls, flags, mode, cid, key) ==
  IF Failed(key) THEN Throw(ErrorOf(key)) /\ plog' = plog
  ELSE IF mode < 0 THEN Throw(ErrorOf(<<mode>>)) /\ plog' = plog
  ELSE CASE mode = 2 -> Goto(ValuesFrame(cls)) /\ plog' = plog
         [] mode = 3 -> ClassdataParse(cls, cid, key, MapGet(classDataParsers, key))
         [] mode = 4 -> Throw(E_External) /\ plog' = plog
         [] mode = 12 -> CallAnnotations([Top EXCEPT !.st = "external"]) /\ plog' = plog
         [] OTHER -> /\ IF Failed(FlagsHex(heap, flags))
                        THEN Throw(ErrorOf(FlagsHex(heap, flags)))
                        ELSE Throw(E_Flags)
                     /\ plog' = plog

\* classdata(cls): the two registry lookups and the switch on cls.flags &
\* 0x0f; under case 0x03 the call of the class-data parser, which is
\* this.values when none is registered.
Classdata ==
  /\ In("classdata", "start")
  /\ ClassdataSwitch(Top.cls, Prop(heap, Top.cls, "flags"),
                     FlagsMode(Prop(heap, Top.cls, "flags")), Len(plog) + 1,
                     ClassKey(heap, Top.cls))
  /\ Did("classdata", 0, Top.cls)
  /\ NoHandle
  /\ NoRead /\ UNCHANGED << contents, heap, calls, registry, clog >>

\* case 0x03, after the class-data parser: res["@"] = this.annotations()
ClassdataParsed ==
  /\ In("classdata", "parsed")
  /\ CallAnnotations([fn |-> "classdata", st |-> "annotated", cls |-> Top.cls,
                      cid |-> Top.cid, post |-> Top.post, res |-> ret])
  /\ plog' = Append(plog, Step(Top.cid, "annotations", Top.cls, Undefined, ret,
                              Undefined, Undefined))
  /\ Did("classdata.parsed", Top.cid, ret)
  /\ NoHandle
  /\ NoRead /\ UNCHANGED << contents, heap, calls, registry, clog >>

\* A faulty case 0x03: the post-processor is not called.
ClassdataAnnotatedNoPost ==
  /\ In("classdata", "annotated")
  /\ LET res == ObjSet(heap, Top.res, S_at, ret)
     IN  /\ Return(res) /\ Did("classdata.annotated", Top.cid, res)
         /\ plog' = Append(plog, Step(Top.cid, "store", Top.cls, Undefined, res, ret, res))
  /\ NoHandle
  /\ NoRead /\ UNCHANGED << contents, heap, calls, registry, clog >>

\* case 0x03, after the annotations: the "@" entry, the post-processor if
\* one is registered, then return res
ClassdataAnnotated ==
  /\ In("classdata", "annotated")
  /\ LET res == ObjSet(heap, Top.res, S_at, ret)
         postProcessor == Top.post
         out == ApplyPost(postProcessor, Top.cls, res, ret)
         stored == Step(Top.cid, "store", Top.cls, Undefined, res, ret, res)
     IN  IF res.k = "throws"
         THEN Throw(ErrorOf(FailureOf(res))) /\ Did("classdata.annotated", Top.cid, res)
              /\ plog' = plog
         ELSE IF Truthy(postProcessor)
         THEN /\ Return(out) /\ Did("classdata.annotated", Top.cid, out)
              /\ plog' = plog \o << stored,
                                    Step(Top.cid, "post", Top.cls, postProcessor, res, ret, out) >>
         ELSE /\ Return(res) /\ Did("classdata.annotated", Top.cid, res)
              /\ plog' = Append(plog, stored)
  /\ NoHandle
  /\ NoRead /\ UNCHANGED << contents, heap, calls, registry, clog >>

\* case 0x0c: return { "@": this.annotations() }
ClassdataExternal ==
  /\ In("classdata", "external")
  /\ LET res == Map(<< <<S_at, ret>> >>)
     IN  Return(res) /\ Did("classdata.external", 0, res)
  /\ NoHandle
  /\ NoRead /\ UNCHANGED << contents, heap, calls, registry, clog, plog >>

\* One step() per read of a primitive handler: J reads two 32-bit words.
PrimChunks(t, bs) ==
  IF t = <<74>> THEN << SubSeq(bs, 1, 4), SubSeq(bs, 5, 8) >> ELSE << bs >>

\* primHandlers: the value a fixed-width handler makes of its bytes.  Doubles
\* and floats keep their IEEE-754 bits.
PrimValue(t, bs) ==
  CASE t = <<66>> -> Num(Signed(bs))
    [] t = <<67>> -> Str(<<BE(bs)>>)
    [] t = <<68>> -> [k |-> "double", v |-> bs]
    [] t = <<70>> -> [k |-> "float", v |-> bs]
    [] t = <<73>> -> Num(Signed(bs))
    [] t = <<74>> -> [k |-> "long", v |-> bs]
    [] t = <<83>> -> Num(Signed(bs))
    [] t = <<90>> -> Bool(Signed(bs) # 0)

\* primHandlers[type] for a type that names no handler of primHandlers: a
\* member of Object.prototype, told by what handler.call(this) does, or
\* "none".
Inherited(type) ==
  CASE type \in { <<116, 111, 83, 116, 114, 105, 110, 103>>,
                  <<116, 111, 76, 111, 99, 97, 108, 101, 83, 116, 114, 105, 110, 103>> } ->
         "string"
    [] type = <<99, 111, 110, 115, 116, 114, 117, 99, 116, 111, 114>> -> "object"
    [] type = <<118, 97, 108, 117, 101, 79, 102>> -> "this"
    [] type \in { <<104, 97, 115, 79, 119, 110, 80, 114, 111, 112, 101, 114, 116, 121>>,
                  <<105, 115, 80, 114, 111, 116, 111, 116, 121, 112, 101, 79, 102>>,
                  <<112, 114, 111, 112, 101, 114, 116, 121, 73, 115, 69, 110, 117, 109, 101, 114, 97, 98, 108, 101>> } ->
         "false"
    [] type \in { <<95, 95, 108, 111, 111, 107, 117, 112, 71, 101, 116, 116, 101, 114, 95, 95>>,
                  <<95, 95, 108, 111, 111, 107, 117, 112, 83, 101, 116, 116, 101, 114, 95, 95>> } ->
         "undefined"
    [] type \in { <<95, 95, 100, 101, 102, 105, 110, 101, 71, 101, 116, 116, 101, 114, 95, 95>>,
                  <<95, 95, 100, 101, 102, 105, 110, 101, 83, 101, 116, 116, 101, 114, 95, 95>>,
                  <<95, 95, 112, 114, 111, 116, 111, 95, 95>> } ->
         "throws"
    [] OTHER -> "none"

\* handler.call(this) for a member of Object.prototype that returns
InheritedValue(m) ==
  CASE m = "string" -> Str(S_object)
    [] m = "object" -> Map(<<>>)
    [] m = "this" -> This
    [] m = "false" -> Bool(FALSE)
    [] m = "undefined" -> Undefined

\* fields.length as a number
FieldsLength(h, fields) ==
  IF Nullish(fields) THEN NaN ELSE ToNumber(h, Prop(h, fields, "length"))

\* String(fields[i].type), the key of primHandlers[field.type]
FieldType(h, fields, i) ==
  Let(Get(h, fields, Digits(i)), LAMBDA field :
    IF Nullish(field) THEN Throws ELSE JsString(h, Prop(h, field, "type")))

\* String(fields[i].name), the key of vals[field.name]
FieldKey(h, fields, i) ==
  Let(Get(h, fields, Digits(i)), LAMBDA field : JsString(h, Prop(h, field, "name")))


\* The loop goes on with vals, unless the assignment threw.
ValuesStore(vals, st) ==
  IF vals.k = "throws" THEN Throw(ErrorOf(FailureOf(vals)))
  ELSE Goto([Top EXCEPT !.st = st, !.vals = vals, !.i = @ + 1])

\* The length of "Don't know how to read field of type ''".
FieldTypeMessage == 39

\* One round of the loop of values(), of the field of type type and name key
\* among the n of fields.
ValuesRound(fields, n, type, key) ==
  IF Nullish(fields) \/ n.kind = "throws"
  THEN /\ Throw(IF Nullish(fields) THEN E_TypeError ELSE ErrorOf(n.int))
       /\ NoRead
  ELSE IF ~Below(Top.i, n)
  THEN /\ Return(Top.vals)
       /\ NoRead
  ELSE IF Failed(type)
  THEN /\ Throw(ErrorOf(type))
       /\ NoRead
  ELSE IF ~IsKnownType(type)
  THEN /\ CASE Inherited(type) = "none" ->
                 Throw(IF FieldTypeMessage + Len(type) > StringMax THEN E_StringLength
                       ELSE E_FieldType)
            [] Inherited(type) = "throws" -> Throw(E_TypeError)
            [] OTHER -> ValuesStore(Stored(heap, Top.vals, key,
                                           InheritedValue(Inherited(type))), "loop")
       /\ NoRead
  ELSE IF IsContentType(type)
  THEN /\ Call([Top EXCEPT !.st = "value"], AnyContent)
       /\ NoRead
  ELSE \E bs \in PrimBytes(PrimWidth(type)) :
         \E r \in Reads(PrimChunks(type, bs)) :
             /\ Cursor(r)
             /\ IF ~r.ok THEN Throw(E_Premature)
                ELSE ValuesStore(Stored(heap, Top.vals, key, PrimValue(type, bs)), "loop")

\* values(cls): one round of the loop over fields: the test i < fields.length,
\* field = fields[i], primHandler(field.type), vals[field.name] =
\* handler.call(this)
Values ==
  /\ In("values", "loop")
  /\ ValuesRound(Top.fields, FieldsLength(heap, Top.fields),
                 FieldType(heap, Top.fields, Top.i), FieldKey(heap, Top.fields, Top.i))
  /\ Did("values", Top.i, Top.cls)
  /\ NoHandle
  /\ UNCHANGED << contents, heap, calls, registry, clog, plog >>

\* vals[field.name] = <what content() returned>
ValuesValue ==
  /\ In("values", "value")
  /\ ValuesStore(Stored(heap, Top.vals, FieldKey(heap, Top.fields, Top.i), ret), "loop")
  /\ Did("values.value", Top.i, ret)
  /\ NoHandle
  /\ NoRead /\ UNCHANGED << contents, heap, calls, registry, clog, plog >>

\* ---- arrays

\* typeHandlers.Array: this.classDesc() ...
HArray ==
  /\ In("Array", "start")
  /\ Call([fn |-> "Array", st |-> "class"], classDesc)
  /\ Did("Array", 0, Undefined)
  /\ NoHandle
  /\ NoRead /\ UNCHANGED << contents, heap, calls, registry, clog, plog >>

\* ... res = [] with class and extends; newHandle(res); the length; the
\* element handler primHandler(classDesc.name.charAt(1)); res.length = len
HArrayClass ==
  /\ In("Array", "class")
  /\ \E w \in ArrayLens :
     \E r \in Reads(<<w>>) :
       LET id == Len(heap) + 1
           n == Signed(w)
           nm == IF Nullish(ret) THEN Undefined ELSE Prop(heap, ret, "name")
           text == StringOf(heap, nm)
           t == IF text = Throws THEN <<>> ELSE CharAt1(text)
           sized == r.ok /\ text # Throws /\ IsKnownType(t) /\ n >= 0
       IN  /\ Cursor(r)
           /\ heap' = Append(heap, [ kind |-> "arr", class |-> ret, extends |-> <<>>,
                                     extendsProto |-> ObjectPrototype,
                                     length |-> IF sized THEN n ELSE 0, elems |-> <<>> ])
           /\ newHandle(Ref(id))
           /\ Did("Array.newHandle", nextHandle, Ref(id))
           /\ IF ~r.ok THEN Throw(E_Premature)
              ELSE IF text = Throws THEN Throw(E_TypeError)
              ELSE IF ~IsKnownType(t) THEN Throw(E_FieldType)
              ELSE IF n < 0 THEN Throw(E_RangeError)
              ELSE Goto([fn |-> "Array", st |-> "elems", res |-> id, n |-> n, i |-> 0, t |-> t])
  /\ UNCHANGED << contents, calls, registry, clog, plog >>

\* the element loop: res[i] = handler.call(this)
HArrayElems ==
  /\ In("Array", "elems")
  /\ IF ~(Top.i < Top.n)
     THEN /\ Return(Ref(Top.res))
          /\ NoRead /\ heap' = heap
     ELSE IF IsContentType(Top.t)
     THEN /\ Call([Top EXCEPT !.st = "elem"], AnyContent)
          /\ NoRead /\ heap' = heap
     ELSE \E bs \in PrimBytes(PrimWidth(Top.t)) :
            \E r \in Reads(PrimChunks(Top.t, bs)) :
                /\ Cursor(r)
                /\ IF ~r.ok THEN Throw(E_Premature) /\ heap' = heap
                   ELSE /\ heap' = [heap EXCEPT ![Top.res].elems = Append(@, PrimValue(Top.t, bs))]
                        /\ Goto([Top EXCEPT !.i = @ + 1])
  /\ Did("Array.elems", Top.i, Ref(Top.res))
  /\ NoHandle
  /\ UNCHANGED << contents, calls, registry, clog, plog >>

\* res[i] = <what content() returned>
HArrayElem ==
  /\ In("Array", "elem")
  /\ heap' = [heap EXCEPT ![Top.res].elems = Append(@, ret)]
  /\ Goto([Top EXCEPT !.st = "elems", !.i = @ + 1])
  /\ Did("Array.elem", Top.i, ret)
  /\ NoHandle
  /\ NoRead /\ UNCHANGED << contents, calls, registry, clog, plog >>

\* ---- enums

\* typeHandlers.Enum: this.classDesc() ...
HEnum ==
  /\ In("Enum", "start")
  /\ Call([fn |-> "Enum", st |-> "class"], classDesc)
  /\ Did("Enum", 0, Undefined)
  /\ NoHandle
  /\ NoRead /\ UNCHANGED << contents, heap, calls, registry, clog, plog >>

\* ... deferredHandle = this.newDeferredHandle(); this.content() ...
HEnumClass ==
  /\ In("Enum", "class")
  /\ newDeferredHandle
  /\ Call([fn |-> "Enum", st |-> "constant", clazz |-> ret, idx |-> nextHandle], AnyContent)
  /\ Did("Enum.reserve", nextHandle, Null)
  /\ NoRead /\ UNCHANGED << contents, heap, calls, registry, clog, plog >>

\* ... res = new String(constant) with class and extends; deferredHandle(res)
HEnumConstant ==
  /\ In("Enum", "constant")
  /\ LET id == Len(heap) + 1
         str == JsString(heap, ret)
     IN  IF Failed(str)
         THEN /\ Throw(ErrorOf(str))
              /\ NoHandle /\ heap' = heap
              /\ Did("Enum.constant", Top.idx, ret)
         ELSE /\ heap' = Append(heap, [ kind |-> "enum", str |-> str, class |-> Top.clazz,
                                        extends |-> <<>>, extendsProto |-> ObjectPrototype ])
              /\ FillDeferred(Top.idx, Ref(id))
              /\ Return(Ref(id))
              /\ Did("Enum.fill", Top.idx, Ref(id))
  /\ NoRead /\ UNCHANGED << contents, calls, registry, clog, plog >>

\* ------------------------------------------------------ the specification

Next ==
  \/ RegisterClassDataParser \/ RegisterPostProcessor \/ Register
  \/ Magic \/ Version \/ Loop \/ Push \/ Content
  \/ HNull \/ HReference \/ HString \/ HLongString
  \/ HBlockData \/ HBlockDataLong \/ HEndBlockData
  \/ HClassDesc \/ HClassDescField \/ HClassDescAnnotations \/ HClassDescSuper
  \/ FieldDesc \/ FieldDescClassName \/ Annotations \/ HClass \/ HClassHandle
  \/ HObject \/ HObjectClass \/ HObjectData
  \/ RecursiveClassData \/ RecursiveClassDataOwn \/ RecursiveClassDataCopy
  \/ Classdata \/ ClassdataParsed \/ ClassdataAnnotated \/ ClassdataExternal
  \/ Values \/ ValuesValue
  \/ HArray \/ HArrayClass \/ HArrayElems \/ HArrayElem
  \/ HEnum \/ HEnumClass \/ HEnumConstant

Spec == Init /\ [][Next]_vars

\* ------------------------------------------------------------ the handles

\* The writes to slot h, as indices of hlog.
WritesTo(h) == { i \in DOMAIN hlog : hlog[i].h = h }

\* The value the latest write to slot h stored.
LastStored(h) ==
  hlog[CHOOSE i \in WritesTo(h) : \A j \in WritesTo(h) : j <= i].v

\* C1: a Reference tag that carries a handle under which a value has been
\* stored returns that very value: the same string, or the same object by
\* identity (the same heap index), whatever its kind; no object is created
\* for it.
C1_ReferenceYieldsStored ==
  (last.op = "Reference" /\ pc # "failed" /\ WritesTo(last.h) # {})
    => /\ ret = LastStored(last.h)
       /\ last.v = ret
       /\ (IsRef(ret) => ret.v[1] \in 1..Len(heap))

\* C1 happens: a top-level Reference has just returned the object that the
\* first top-level item decoded, and that object went through a class walk.
C1_Witness ==
  /\ last.op = "Reference" /\ pc = "run" /\ stack = <<>>
  /\ Len(contents) = 1 /\ contents[1] = ret
  /\ IsRef(ret) /\ heap[ret.v[1]].kind = "obj"
  /\ heap[ret.v[1]].props # <<>>

\* C2: the slots written are exactly BaseHandle .. nextHandle-1; allocations
\* take the slots in order, one each; and a slot is written a second time
\* only by the fill of a slot that was reserved empty, once.
C2_HandlesContiguous ==
  /\ nextHandle >= BaseHandle
  /\ DOMAIN handles = BaseHandle..(nextHandle - 1)
  /\ { hlog[i].h : i \in DOMAIN hlog } = DOMAIN handles
  /\ \A i \in DOMAIN hlog :
       hlog[i].op \in { "newHandle", "reserve" }
         => hlog[i].h = BaseHandle
                          + Cardinality({ j \in 1..(i - 1) : hlog[j].op # "fill" })
  /\ \A i, j \in DOMAIN hlog :
       (i < j /\ hlog[i].h = hlog[j].h)
         => /\ hlog[i].op = "reserve" /\ hlog[i].v = Null
            /\ hlog[j].op = "fill"
  /\ \A h \in DOMAIN handles : handles[h] = LastStored(h)

\* C2 happens: a reserved slot has been filled after a later slot was
\* allocated, and three slots are in use.
C2_Witness ==
  /\ nextHandle >= BaseHandle + 3
  /\ \E i, j, k \in DOMAIN hlog :
       /\ i < j /\ j < k
       /\ hlog[i].op = "reserve" /\ hlog[k].op = "fill" /\ hlog[k].h = hlog[i].h
       /\ hlog[j].op = "newHandle"

\* The allocations made by the handler that constructs the value it stores:
\* every allocation but those of the Class handler.
OwnAllocations == { i \in DOMAIN hlog : hlog[i].by # "Class" }

\* C3, amended: every object constructed is stored once by the handler that
\* constructs it (its own handle), and every allocation by a handler other
\* than Class is for a string just read, for an object not stored before, or
\* reserves an empty slot for an enum constant; the Class handler allocates
\* one further slot for whatever classDesc() returned, be it a descriptor
\* that has its own handle already, null, or a value fetched by a Reference.
C3_OneOwnHandle ==
  /\ pc # "failed"
       => \A id \in 1..Len(heap) :
            Cardinality({ i \in OwnAllocations : hlog[i].v = Ref(id) }) = 1
  /\ \A i \in OwnAllocations :
       \/ hlog[i].op = "reserve" /\ hlog[i].v = Null
       \/ hlog[i].op = "newHandle" /\ IsStr(hlog[i].v)
       \/ /\ hlog[i].op \in { "newHandle", "fill" }
          /\ IsRef(hlog[i].v)
          /\ \A j \in 1..(i - 1) : hlog[j].v # hlog[i].v
  /\ \A i \in DOMAIN hlog \ OwnAllocations :
       /\ hlog[i].op = "newHandle"
       /\ IsRef(hlog[i].v) => \E j \in 1..(i - 1) : hlog[j].v = hlog[i].v

\* C3 happens: the Class handler has stored a descriptor that the ClassDesc
\* handler had stored already, and the parse has completed.
C3_Witness ==
  /\ pc = "done"
  /\ \E i, j \in DOMAIN hlog :
       /\ i < j /\ hlog[i].by = "ClassDesc" /\ hlog[j].by = "Class"
       /\ hlog[i].v = hlog[j].v /\ hlog[i].h # hlog[j].h

\* C3 as claimed: no object is stored under two handles, and every
\* allocation is for a constructed value of a referenceable kind.
C3_ExactlyOneHandle ==
  \A i \in DOMAIN hlog :
    /\ hlog[i].op # "reserve" => (IsStr(hlog[i].v) \/ IsRef(hlog[i].v))
    /\ IsRef(hlog[i].v)
         => \A j \in DOMAIN hlog : hlog[j].v = hlog[i].v => hlog[j].h = hlog[i].h

\* C4 as claimed: a parse that succeeds ends with the cursor at the end of
\* the buffer.
C4_CursorAtEnd == pc = "done" => pos = len

\* C5 as claimed: once a read has passed the end of the buffer the parse has
\* failed with "Premature end of input".
C5_OverReadFails ==
  (len >= 0 /\ pos > len) => (pc = "failed" /\ err = E_Premature)

\* The values an object of the heap holds.
Held(o) ==
  CASE o.kind = "obj" -> { o.props[i][2] : i \in DOMAIN o.props }
                           \cup UNION { { o.extends[i][2].v[j][2] : j \in DOMAIN o.extends[i][2].v }
                                        : i \in DOMAIN o.extends }
    [] o.kind = "arr" -> { o.elems[i] : i \in DOMAIN o.elems }
    [] o.kind = "desc" ->
         (IF o.fields.k = "list"
          THEN { o.fields.v[i].className : i \in DOMAIN o.fields.v } ELSE {})
         \cup (IF o.annotations.k = "list"
               THEN { o.annotations.v[i] : i \in DOMAIN o.annotations.v } ELSE {})
    [] OTHER -> {}

\* C6 as claimed: after a successful parse the end-block sentinel is no
\* element of the output, no field value, no array element, no class name of
\* a field descriptor and no element of an annotation list.
C6_SentinelNeverDecoded ==
  pc = "done"
    => /\ \A i \in DOMAIN contents : contents[i] # endBlock
       /\ \A id \in DOMAIN heap :
            \A x \in Held(heap[id]) :
              /\ x # endBlock
              /\ x.k = "list" => \A i \in DOMAIN x.v : x.v[i] # endBlock

\* ------------------------------------------------------------ class data

\* The class data read for object id, as indices of clog, in reading order.
DataOf(id) == { i \in DOMAIN clog : clog[i].obj = id }

RECURSIVE Ordered(_)
\* The indices of a finite set of numbers, ascending.
Ordered(S) ==
  IF S = {} THEN <<>>
  ELSE LET m == CHOOSE x \in S : \A y \in S : y <= x
       IN  Append(Ordered(S \ {m}), m)

\* The name under which the data of class cls is stored.
NameOf(cls) == JsString(heap, Prop(heap, cls, "name"))

\* The field names of a descriptor, in field order.
FieldNamesOf(cls) ==
  LET fs == Prop(heap, cls, "fields")
  IN  IF fs.k = "list" THEN [i \in DOMAIN fs.v |-> fs.v[i].name] ELSE <<>>

\* The objects of the heap.
Objects == { id \in DOMAIN heap : heap[id].kind = "obj" }

RECURSIVE ChainOf(_, _)
\* The superclass chain of a descriptor, root first, followed for at most
\* fuel links.
ChainOf(cls, fuel) ==
  IF fuel = 0 \/ ~IsRef(cls) THEN <<>>
  ELSE Append(ChainOf(Prop(heap, cls, "super"), fuel - 1), cls)

\* C7 as claimed: after a successful parse the keys of an object's extends
\* are the names of the classes of its chain, root first, and the value
\* stored under each name is a mapping whose keys are the field names of
\* that class's descriptor, in field order, whatever the serialization mode.
C7_KeysAreFieldNames ==
  pc = "done"
    => \A id \in Objects :
         LET chain == ChainOf(heap[id].class, Len(heap))
         IN  /\ MapKeys(heap[id].extends) = [i \in DOMAIN chain |-> NameOf(chain[i])]
             /\ \A i \in DOMAIN chain :
                  LET val == MapGet(heap[id].extends, NameOf(chain[i]))
                  IN  val.k = "map" /\ MapKeys(val.v) = FieldNamesOf(chain[i])

\* The entry names the data of a class contributes: the properties the
\* for-in loop found on the per-class value, its own and its inherited ones.
Contributed(e) == MapKeys(e.entries)

Has(e, n) == MapHas(e.entries, n)

\* obj.extends[cls.name] as a read finds it, for an entry e of the history.
ExtendsOf(e) == Get(heap, Prop(heap, Ref(e.obj), "extends"), NameOf(e.cls))

\* C8 as claimed: after a successful parse, for every name n a class K of
\* an object's chain contributed, extends[name(K)][n] reads the value K
\* contributed, and obj[n] reads the value contributed by the class nearest
\* the declared class that has n.
C8_ExtendsKeepsEachClass ==
  pc = "done"
    => \A i \in DOMAIN clog :
         \A k \in DOMAIN Contributed(clog[i]) :
           LET n == Contributed(clog[i])[k]
           IN  /\ Get(heap, ExtendsOf(clog[i]), n) = MapGet(clog[i].entries, n)
               /\ (\A j \in DataOf(clog[i].obj) : j > i => ~Has(clog[j], n))
                    => Get(heap, Ref(clog[i].obj), n) = MapGet(clog[i].entries, n)

\* ----------------------------------------------------------- the header

\* C9: a buffer whose first word is not 0xACED fails with the magic error,
\* whatever follows; one whose first word is 0xACED and whose second word is
\* not 5 fails with the version error; in both cases no content is read, no
\* output is made and no handle is assigned.
C9_HeaderValidated ==
  LET badMagic == Len(buf) >= 2 /\ BE(SubSeq(buf, 1, 2)) # StreamMagic
      badVersion == Len(buf) >= 4 /\ BE(SubSeq(buf, 3, 4)) # StreamVersion
      nothing == calls = 0 /\ contents = <<>> /\ hlog = <<>> /\ heap = <<>>
  IN  /\ badMagic => pc = "failed" /\ err = E_Magic /\ nothing /\ Len(buf) = 2
      /\ (~badMagic /\ badVersion)
           => pc = "failed" /\ err = E_Version /\ nothing /\ Len(buf) = 4
      /\ calls > 0 => Len(buf) >= 4 /\ ~badMagic /\ ~badVersion

\* C9 happens: the magic was right and the version was not.
C9_Witness ==
  /\ pc = "failed" /\ err = E_Version
  /\ buf = << 172, 237, 0, 4 >>

\* ---------------------------------------------------------- termination

\* The parse has ended: the constructor has returned or thrown.
Ended == pc \in { "done", "failed" }

\* new Parser(buf) is called, whatever registrations the client makes before
\* it, and runs without a pause until it has ended: weak fairness of Magic,
\* and weak fairness of Next with its enabling condition written out (a step
\* is possible exactly where the parse has not ended).
FairSpec == Spec /\ WF_vars(Magic) /\ ([]<>Ended \/ []<><<Next>>_vars)

\* C10 as claimed: the parse of every buffer ends, with the output or with
\* an error; no loop and no walk of a chain of super classes goes on without
\* end.  The top-level loop, the annotation loop and the field and element
\* loops read input at each round and so end; the walk of recursiveClassData
\* on a chain of super classes that comes back to itself does not.
C10_ParseEnds == <>Ended

\* -------------------------------------------------------- malformed input

\* C11 as claimed: a Reference tag whose handle is not assigned (below
\* BaseHandle, or nextHandle and above) fails the parse, and the output of
\* a successful parse holds no undefined, the value such a tag yields.
C11_UnassignedReferenceFails ==
  /\ (last.op = "Reference" /\ last.h \notin BaseHandle..(nextHandle - 1))
       => pc = "failed"
  /\ pc = "done" => \A i \in DOMAIN contents : contents[i] # Undefined

\* C16 as claimed: a tag byte outside 0x70..0x7E that was read fails the
\* parse with the unknown-tag error.
C16_UnknownTagError ==
  (last.op = "content" /\ last.h \notin TagBase..(TagBase + Len(names) - 1)
     /\ err # E_Premature)
    => (pc = "failed" /\ err = E_UnknownTag)

\* C18 as claimed: after a successful parse the className of every field
\* descriptor of type L or [ is a string.
C18_ClassNameIsString ==
  pc = "done"
    => \A id \in DOMAIN heap :
         (heap[id].kind = "desc" /\ heap[id].fields.k = "list")
           => \A i \in DOMAIN heap[id].fields.v :
                IsContentType(heap[id].fields.v[i].type)
                  => IsStr(heap[id].fields.v[i].className)

\* ------------------------------------------------- the order of handles

\* The objects and arrays of the heap.
Containers == { id \in DOMAIN heap : heap[id].kind \in { "obj", "arr" } }

\* C13: an object or array is stored under its handle once, after the
\* descriptor in its class position and before any of its data: when the
\* handle is assigned the object has no class data and the array no
\* element; every slot allocated later is a larger one; and a Reference to
\* the handle, also from inside the object or array, yields that very
\* object or array.
C13_HandleBeforeContents ==
  \A id \in Containers :
    LET own == { i \in OwnAllocations : hlog[i].v = Ref(id) }
        i == CHOOSE x \in own : TRUE
    IN  /\ Cardinality(own) = 1
        /\ hlog[i].by = (IF heap[id].kind = "obj" THEN "Object" ELSE "Array")
        /\ (IsRef(heap[id].class) /\ heap[heap[id].class.v[1]].kind = "desc")
             => \E j \in 1..(i - 1) : hlog[j].v = heap[id].class
        /\ \A j \in DOMAIN hlog :
             (j > i /\ hlog[j].op # "fill") => hlog[j].h > hlog[i].h
        /\ (last.op \in { "Object.newHandle", "Array.newHandle" } /\ last.v = Ref(id))
             => /\ last.h = hlog[i].h
                /\ i = Len(hlog)
                /\ DataOf(id) = {}
                /\ heap[id].extends = <<>>
                /\ Held(heap[id]) = {}
        /\ (last.op = "Reference" /\ pc # "failed" /\ last.h = hlog[i].h)
             => ret = Ref(id)

\* C13 happens: a completed parse holds an object one of whose field values
\* is the object itself, read as a Reference to the object's own handle.
C13_Witness ==
  /\ pc = "done"
  /\ \E id \in Objects :
       /\ \E k \in DOMAIN heap[id].props : heap[id].props[k][2] = Ref(id)
       /\ \E i \in OwnAllocations : hlog[i].v = Ref(id) /\ hlog[i].h > BaseHandle

\* The reservations and the fills of the history, as indices of hlog.
Reservations == { i \in DOMAIN hlog : hlog[i].op = "reserve" }
Fills == { i \in DOMAIN hlog : hlog[i].op = "fill" }

\* C14: the Enum handler reserves the next slot, empty, after the class
\* descriptor is read and before the constant name is read, and fills that
\* slot with the enum wrapper at the end: every slot allocated before the
\* reservation is smaller and every slot allocated after it is larger, the
\* slot holds null while the name is read, exactly one fill follows a
\* reservation and writes the wrapper to the reserved slot, the Enum handler
\* writes a wrapper nowhere else (a later Class tag whose class is a back
\* reference to the enum stores the same wrapper under a handle of its own),
\* and a Reference to a filled slot yields the wrapper written there.
C14_EnumDeferredHandle ==
  /\ \A i \in Reservations :
       /\ hlog[i].by = "Enum" /\ hlog[i].v = Null
       /\ \A j \in DOMAIN hlog :
            /\ j < i => hlog[j].h < hlog[i].h
            /\ (j > i /\ hlog[j].op # "fill") => hlog[j].h > hlog[i].h
       /\ Cardinality({ j \in Fills : hlog[j].h = hlog[i].h }) <= 1
  /\ \A j \in Fills :
       /\ hlog[j].by = "Enum"
       /\ \E i \in Reservations : i < j /\ hlog[i].h = hlog[j].h
       /\ IsRef(hlog[j].v) /\ heap[hlog[j].v.v[1]].kind = "enum"
       /\ \A k \in DOMAIN hlog :
            hlog[k].v = hlog[j].v
              => \/ k = j
                 \/ k > j /\ hlog[k].by = "Class" /\ hlog[k].op # "fill"
                          /\ hlog[k].h > hlog[j].h
       /\ LET cls == heap[hlog[j].v.v[1]].class
          IN  (IsRef(cls) /\ heap[cls.v[1]].kind = "desc")
                => \E k \in DOMAIN hlog : hlog[k].v = cls /\ hlog[k].h < hlog[j].h
       /\ (last.op = "Reference" /\ pc # "failed" /\ last.h = hlog[j].h)
            => ret = hlog[j].v
  /\ \A d \in DOMAIN stack :
       (stack[d].fn = "Enum" /\ stack[d].st = "constant")
         => /\ handles[stack[d].idx] = Null
            /\ \E i \in Reservations : hlog[i].h = stack[d].idx
            /\ \A j \in Fills : hlog[j].h # stack[d].idx
  /\ \A id \in DOMAIN heap :
       heap[id].kind = "enum" => \E j \in Fills : hlog[j].v = Ref(id)

\* C14 happens: an enum constant whose class descriptor and name string
\* were read in place, so that three consecutive handles were assigned with
\* the enum's in the middle, has been returned by a later Reference.
C14_Witness ==
  /\ last.op = "Reference" /\ pc # "failed"
  /\ IsRef(ret) /\ heap[ret.v[1]].kind = "enum"
  /\ \E j \in Fills :
       /\ hlog[j].v = ret /\ hlog[j].h = last.h
       /\ \E a, b \in DOMAIN hlog :
            /\ hlog[a].by = "ClassDesc" /\ hlog[a].h = hlog[j].h - 1
            /\ hlog[b].by = "String" /\ hlog[b].h = hlog[j].h + 1

\* ----------------------------------------------------------- the allow-list

\* The frames that wait for the result of classDesc().
ClassPosition(f) ==
  \/ f.fn \in { "Object", "Array", "Enum", "Class" } /\ f.st = "class"
  \/ f.fn = "ClassDesc" /\ f.st = "super"

\* The name content() finds for tag byte b.
TagName(b) ==
  IF b - TagBase \in 0..(Len(names) - 1) THEN names[b - TagBase + 1] ELSE "undefined"

\* C17 (the positions): content() runs under the allow-list of classDesc()
\* exactly where the class of an object, array, enum constant or Class
\* value, or a super class, is awaited, and the handler that runs there is
\* that of ClassDesc, Null or Reference.
RestrictedPositions ==
  \A d \in DOMAIN stack :
    /\ (d < Len(stack) /\ ClassPosition(stack[d]))
         => \/ stack[d + 1] = ContentFrame(TRUE, ClassDescAllowed)
            \/ stack[d + 1].fn \in ClassDescAllowed \cap HandlerNames
    /\ (stack[d].fn = "content" /\ stack[d].restricted)
         => /\ stack[d].allowed = ClassDescAllowed
            /\ d > 1 /\ ClassPosition(stack[d - 1])

\* C17 (the step): a step of content() under an allow-list that reads a
\* known tag not in the list fails the parse with "not allowed here",
\* having consumed the tag byte only and assigned no handle; a step that
\* goes on hands over to the handler of a listed tag.
RestrictedStep ==
  (pc = "run" /\ stack # <<>> /\ Top.fn = "content" /\ Top.restricted)
    => /\ last'.op = "content"
       /\ (/\ err' # E_Premature
           /\ last'.h \in TagBase..(TagBase + Len(names) - 1)
           /\ TagName(last'.h) \notin Top.allowed)
            => /\ pc' = "failed" /\ err' = E_NotAllowed
               /\ pos' = pos + 1
               /\ UNCHANGED << nextHandle, handles, hlog, heap, contents >>
       /\ pc' = "run"
            => /\ TagName(last'.h) \in Top.allowed
               /\ stack'[Len(stack')] = [fn |-> TagName(last'.h), st |-> "start"]
               /\ UNCHANGED << nextHandle, handles, hlog, heap, contents >>

\* C17: when content() is called with an allow-list, a known tag whose name
\* is not in the list fails the parse with the "not allowed here" error
\* before any handler runs, no handle is assigned and no further byte is
\* read, the failed parse takes no further step, and every position of a
\* class descriptor is read under the list ClassDesc, ProxyClassDesc, Null,
\* Reference.
C17_AllowList ==
  /\ []RestrictedPositions
  /\ [][RestrictedStep]_vars
  /\ [][pc # "failed"]_vars

\* C17 happens: the tag String stood in the class position of an object and
\* the parse failed with "not allowed here", one byte after the Object tag.
C17_Witness ==
  /\ pc = "failed" /\ err = E_NotAllowed
  /\ last.op = "content" /\ last.h = Tag("String")
  /\ pos >= 2 /\ buf[pos - 1] = Tag("Object") /\ buf[pos] = Tag("String")
  /\ hlog = <<>>

\* --------------------------------------------------------------- the cursor

\* C19: the cursor is never negative and no step of the parse moves it
\* back, whatever lengths the stream supplies for strings and byte runs;
\* every step of content() moves it on by the tag byte it reads, so that
\* after the header each content call has advanced it by at least one byte.
C19_CursorMonotonic ==
  /\ [](pos >= 0 /\ (calls > 0 => pos >= 2 + 2 + calls))
  /\ [][pos' >= pos]_vars
  /\ [][(pc = "run" /\ stack # <<>> /\ Top.fn = "content") => pos' = pos + 1]_vars

\* C19 happens: a BlockDataLong handler has returned a run of two bytes whose
\* length came from the stream, the cursor having passed the tag, the four
\* length bytes and the run.
C19_Witness ==
  /\ last.op = "BlockDataLong" /\ pc = "run"
  /\ ret.k = "block" /\ Len(ret.v) = MaxBlock
  /\ pos >= 2 + 2 + 1 + 4 + MaxBlock

\* ----------------------------------------------------------- the registries

\* The char codes of the hex digits, in either case.
HexDigits == (48..57) \cup (65..70) \cup (97..102)

\* Exactly 16 hex digits.
IsHex16(uid) == Len(uid) = 16 /\ \A i \in DOMAIN uid : uid[i] \in HexDigits

\* The serialVersionUID part of a registry key: what follows the last "@".
KeyUid(key) ==
  LET at == CHOOSE i \in DOMAIN key :
              key[i] = S_at[1] /\ \A j \in DOMAIN key : j > i => key[j] # S_at[1]
  IN  SubSeq(key, at + 1, Len(key))

RegistrationOps == { "registerClassDataParser", "registerPostProcessor", "register" }

\* C12: a registration through registerClassDataParser, registerPostProcessor
\* or register returns exactly when its serialVersionUID is 16 hex digits,
\* and every key of the two registries ends in a serialVersionUID of 16 hex
\* digits.
C12_RegistrationValidatesUid ==
  /\ last.op \in RegistrationOps => (last.h = 1 <=> IsHex16(last.v.v))
  /\ \A i \in DOMAIN classDataParsers : IsHex16(KeyUid(classDataParsers[i][1]))
  /\ \A i \in DOMAIN classPostProcessors : IsHex16(KeyUid(classPostProcessors[i][1]))

\* The steps logged for activation c of classdata(), as indices of plog.
StepsOf(c) == { i \in DOMAIN plog : plog[i].cid = c }

\* The step names of activation c, in order.
StepNames(c) == LET o == Ordered(StepsOf(c)) IN [i \in DOMAIN o |-> plog[o[i]].step]

\* The entry of activation c for the step named n.
StepOf(c, n) == plog[CHOOSE i \in StepsOf(c) : plog[i].step = n]

\* The steps mode 0x03 prescribes for class cls under the registries.
Protocol(cls) ==
  << IF MapHas(classDataParsers, RegistryKey(heap, cls)) THEN "parser" ELSE "values",
     "annotations", "store" >>
  \o (IF MapHas(classPostProcessors, RegistryKey(heap, cls)) THEN << "post" >> ELSE << >>)

IsPrefix(a, b) == Len(a) <= Len(b) /\ a = SubSeq(b, 1, Len(a))

\* The activations of classdata() the history knows.
Activations == { plog[i].cid : i \in DOMAIN plog }

\* C15 (the order): every activation of classdata() that logged a step is
\* for a class of mode 0x03 and has taken, once each and in order, a prefix
\* of: the registered class-data parser or else the default reader, the
\* annotation block, the store under "@", and the post-processor if one is
\* registered; the arguments and results are passed along as the source
\* does.
ProtocolOrder ==
  \A c \in Activations :
    LET steps == StepNames(c)
        cls == plog[c].cls
        key == RegistryKey(heap, cls)
    IN  /\ FlagsMode(Prop(heap, cls, "flags")) = 3
        /\ \A i \in StepsOf(c) : plog[i].cls = cls
        /\ steps # << >> /\ IsPrefix(steps, Protocol(cls))
        /\ steps[1] = "parser" => plog[c].fn = MapGet(classDataParsers, key)
        /\ (steps[1] = "parser" /\ Len(steps) >= 2)
             => StepOf(c, "annotations").res = ApplyParser(plog[c].fn, cls)
        /\ Len(steps) >= 3
             => LET a == StepOf(c, "annotations")
                    st == StepOf(c, "store")
                IN  /\ a.res.k = "map" /\ st.data.k = "list"
                    /\ endBlock \notin { st.data.v[i] : i \in DOMAIN st.data.v }
                    /\ st.res = ObjSet(heap, a.res, S_at, st.data)
        /\ Len(steps) >= 4
             => LET st == StepOf(c, "store")
                    po == StepOf(c, "post")
                IN  /\ po.fn = MapGet(classPostProcessors, key)
                    /\ po.res = st.res /\ po.data = st.data
                    /\ po.out = ApplyPost(po.fn, cls, st.res, st.data)

\* C15 (the activations): a classdata() frame past its first step has
\* logged exactly the steps before its position, and the default reader is
\* below no other frame than one that found no parser registered.
ProtocolFrames ==
  \A d \in DOMAIN stack :
    stack[d].fn = "classdata"
      => /\ stack[d].st = "parsed"
              => /\ Len(StepNames(stack[d].cid)) = 1
                 /\ d < Len(stack)
                      => /\ StepNames(stack[d].cid)[1] = "values"
                         /\ stack[d + 1].fn = "values"
         /\ stack[d].st = "annotated"
              => /\ Len(StepNames(stack[d].cid)) = 2
                 /\ d < Len(stack) => stack[d + 1].fn = "annotations"
         /\ stack[d].st \in { "start", "external" } => stack[d].cid = 0

\* C15 (the result): classdata() under mode 0x03 returns with every step of
\* the protocol taken, and what it returns is the result of the
\* post-processor if one is registered and the value holding "@" if not;
\* when the parse is over every activation is complete, one for each class
\* of mode 0x03 whose data was read.
ProtocolResult ==
  /\ last.op = "classdata.annotated"
       => /\ StepNames(last.h) = Protocol(plog[last.h].cls)
          /\ ret = last.v
          /\ ret = (IF "post" \in { plog[i].step : i \in StepsOf(last.h) }
                    THEN StepOf(last.h, "post").out ELSE StepOf(last.h, "store").res)
  /\ pc = "done"
       => /\ \A c \in Activations : StepNames(c) = Protocol(plog[c].cls)
          /\ Cardinality(Activations)
               = Cardinality({ i \in DOMAIN clog :
                                FlagsMode(Prop(heap, clog[i].cls, "flags")) = 3 })

\* C15 (mode 0x02): classdata() for a class of mode 0x02 hands over to the
\* default reader and nothing else, whatever is registered: no parser or
\* post-processor is called and no annotation block is read.
PlainStep ==
  (/\ pc = "run" /\ stack # <<>> /\ Top.fn = "classdata" /\ Top.st = "start"
   /\ ~Nullish(Top.cls) /\ FlagsMode(Prop(heap, Top.cls, "flags")) = 2)
    => /\ plog' = plog
       /\ stack' = Append(Rest, ValuesFrame(Top.cls))

\* C15: under mode 0x03 the class-data parser registered for the class, or
\* the default reader, runs first, then the annotation block is read, then
\* the annotations are stored under "@" on the value of the first step, then
\* the post-processor registered for the class, if any, is called with the
\* descriptor, that value and the annotations, and its result is the value
\* of the class; each step once for each class read.  Under mode 0x02 only
\* the default reader runs.
C15_ClassDataProtocol ==
  /\ [](ProtocolOrder /\ ProtocolFrames /\ ProtocolResult)
  /\ [][PlainStep]_vars

\* C15 happens: a completed parse read an object of a class with a super
\* class, both of mode 0x03: for the super class a registered class-data
\* parser ran and its annotation block held a string, for the class the
\* default reader ran and then a registered post-processor, and the object
\* holds what the parser and the post-processor returned.
C15_Witness ==
  /\ pc = "done"
  /\ \E a, b \in Activations :
       /\ a < b /\ plog[a].cls # plog[b].cls
       /\ StepNames(a) = << "parser", "annotations", "store" >>
       /\ plog[a].fn = Fn(F_of)
       /\ StepOf(a, "store").data.v # << >>
       /\ StepNames(b) = << "values", "annotations", "store", "post" >>
       /\ StepOf(b, "post").fn = Fn(F_pack)
       /\ \E id \in Objects :
            /\ MapKeys(heap[id].props) = << S_c, S_at, S_r, S_d >>
            /\ MapGet(heap[id].props, S_c) = plog[b].cls
            /\ MapGet(heap[id].props, S_r) = StepOf(b, "store").res

====
